---- MODULE Spec2Model ----
(***************************************************************************)
(* The artifact cache of jundler: the runtime cache (NodeManager,          *)
(* src/builder/node) and the bundler cache (ESBuild, src/builder/esbuild). *)
(* Each manager owns a cache directory holding zstd blobs and a lockfile   *)
(* (jundler.lockb), an in-memory copy of the lockfile, and a scratch       *)
(* directory.  The two managers own disjoint directories (builder/mod.rs   *)
(* 54-59) and share no state, so a behaviour follows one of them, chosen   *)
(* in Init (variable kind).                                                *)
(*                                                                         *)
(* Files are byte sequences (sequences of naturals); the lockfile is a     *)
(* sequence of string tokens, one per bincode field.  Paths, versions and  *)
(* checksums are strings.                                                  *)
(***************************************************************************)
EXTENDS Integers, Sequences, FiniteSets, TLC

\* ------------------------------------------------------------------ bounds

\* Node.js versions 22.3.0 .. 22.3.MaxPatch can be requested.
MaxPatch == 1
\* Public calls (new, get_*_binary, remove, clean_cache) in one behaviour.
MaxCalls == 4
\* Injected failures (I/O errors, network errors, corrupted transfers).
MaxFaults == 1
\* Changes made to the cache directory from outside the program.
MaxTamper == 1

\* ------------------------------------------------------- platform tokens

Os == {"MacOS", "Linux", "Windows"}
Arch == {"X64", "X86", "Arm64"}

OsDisplay(os) ==
    CASE os = "MacOS" -> "darwin"
      [] os = "Linux" -> "linux"
      [] os = "Windows" -> "win"

\* A rendering with the names of Rust's ARCH.
ArchDisplay_rust_names(arch) ==
    CASE arch = "X64" -> "x86_64"
      [] arch = "X86" -> "x86"
      [] arch = "Arm64" -> "aarch64"

ArchDisplay(arch) ==
    CASE arch = "X64" -> "x64"
      [] arch = "X86" -> "x86"
      [] arch = "Arm64" -> "arm64"

\* The position of a variant in its enum: what bincode writes for it.
OsIndex(os) ==
    CASE os = "MacOS" -> 0
      [] os = "Linux" -> 1
      [] os = "Windows" -> 2

ArchIndex(arch) ==
    CASE arch = "X64" -> 0
      [] arch = "X86" -> 1
      [] arch = "Arm64" -> 2

\* Os::default and Arch::default: the variant for std::env::consts::OS and
\* ARCH, and a panic for every other name.
Os_default(OS) ==
    IF OS \in {"macos", "darwin"} THEN "MacOS"
    ELSE IF OS = "linux" THEN "Linux"
    ELSE IF OS = "windows" THEN "Windows"
    ELSE "panic"

Arch_default(ARCH) ==
    IF ARCH = "x86" THEN "X86"
    ELSE IF ARCH \in {"x64", "x86_64"} THEN "X64"
    ELSE IF ARCH \in {"arm", "aarch64"} THEN "Arm64"
    ELSE "panic"

\* The machine the tool runs on: Linux on x86_64.
get_host_os == Os_default("linux")
get_host_arch == Arch_default("x86_64")

\* The targets a manager is constructed for in this model.
Targets == {<<"Windows", "X64">>, <<"Linux", "X86">>}

\* ----------------------------------------------------------------- versions

VersionOf(p) == "22.3." \o ToString(p)
Patches == 0..MaxPatch
Versions == {VersionOf(p) : p \in Patches}
PatchOf(v) == CHOOSE p \in Patches : VersionOf(p) = v

ESBUILD_VERSION == "0.23.0"

\* The bundler version a release before this one pinned.
EarlierESBuildVersion == "0.21.5"

\* ------------------------------------------------------------------- bytes

Flip(bytes, i) == [bytes EXCEPT ![i] = (@ + 1) % 256]
\* The places where a byte is changed in this model: the first and the last.
Places(bytes) == IF bytes = <<>> THEN {} ELSE {1, Len(bytes)}

RECURSIVE HexJoin(_)
HexJoin(bytes) ==
    IF bytes = <<>> THEN ""
    ELSE ToString(Head(bytes)) \o "." \o HexJoin(Tail(bytes))

\* SHA-256 of a file's bytes, taken as collision free: two digests are equal
\* exactly when the bytes are.
Sha256(bytes) == "sha256:" \o HexJoin(bytes)

ZstdMagic == <<40, 181, 47, 253>>
GzMagic == <<31, 139>>
ZipMagic == <<80, 75>>

HasPrefix(bytes, p) == Len(bytes) >= Len(p) /\ SubSeq(bytes, 1, Len(p)) = p
Strip(bytes, p) == SubSeq(bytes, Len(p) + 1, Len(bytes))

\* zstd::Encoder at level 0 over the whole buffer: one frame, no content
\* checksum (the crate's default).
ZstdEncode(bytes) == ZstdMagic \o bytes
ZstdOk(blob) == HasPrefix(blob, ZstdMagic)
\* A decoder that loses the last byte of the content.
ZstdDecode_truncating(blob) ==
    SubSeq(Strip(blob, ZstdMagic), 1, Len(Strip(blob, ZstdMagic)) - 1)

ZstdDecode(blob) == Strip(blob, ZstdMagic)

\* --------------------------------------------------------------- upstream

\* The platforms nodejs.org publishes an archive for, in the order of their
\* lines in SHASUMS256.txt (linux-x86 is not published).
Published ==
    << <<"MacOS", "Arm64">>, <<"MacOS", "X64">>, <<"Linux", "Arm64">>,
       <<"Linux", "X64">>, <<"Windows", "Arm64">>, <<"Windows", "X64">>,
       <<"Windows", "X86">> >>

\* The bytes of the node executable published for (version, os, arch).
NodeBinary(version, os, arch) ==
    <<PatchOf(version), OsIndex(os), ArchIndex(arch)>>

\* The bytes of the esbuild executable published for the host platform.
ESBuildBinary(version) ==
    <<IF version = ESBUILD_VERSION THEN 7 ELSE 6,
      OsIndex(get_host_os), ArchIndex(get_host_arch)>>

RECURSIVE SumBytes(_)
SumBytes(bytes) ==
    IF bytes = <<>> THEN 0 ELSE (Head(bytes) + SumBytes(Tail(bytes))) % 256

ArchiveMagic(os) == IF os = "Windows" THEN ZipMagic ELSE GzMagic

\* An archive (tar.gz or zip) holding one directory with one executable:
\* magic, the directory's name, the executable, and the format's CRC.
PackArchive(magic, dirname, binary) ==
    magic \o dirname \o binary \o <<SumBytes(dirname \o binary)>>

\* The archive served at
\* https://nodejs.org/dist/v{version}/node-v{version}-{os}-{arch}.{ext}.
NodeArchive(version, os, arch) ==
    PackArchive(ArchiveMagic(os),
                <<PatchOf(version), OsIndex(os), ArchIndex(arch)>>,
                NodeBinary(version, os, arch))

\* The tarball served at
\* https://registry.npmjs.org/@esbuild/{os}-{arch}/-/{os}-{arch}-{version}.tgz;
\* its directory is always "package".
ESBuildArchive(version) ==
    PackArchive(GzMagic, <<>>, ESBuildBinary(version))

\* ------------------------------------------------------------------ paths

CacheDir == "cache"
Join(dir, name) == dir \o "/" \o name
LockfilePath == Join(CacheDir, "jundler.lockb")
ScratchRoot(i) == "scratch" \o ToString(i)

NodeDirName(version, os, arch) ==
    "node-v" \o version \o "-" \o OsDisplay(os) \o "-" \o ArchDisplay(arch)

\* ------------------------------------------------------- archive unpacking

\* Whether the bytes are a readable archive of the given format.
ArchiveOk(magic, dirlen, bytes) ==
    /\ HasPrefix(bytes, magic)
    /\ Len(bytes) > Len(magic) + dirlen
    /\ bytes[Len(bytes)] =
           SumBytes(SubSeq(bytes, Len(magic) + 1, Len(bytes) - 1))

ArchiveDir(magic, dirlen, bytes) ==
    SubSeq(bytes, Len(magic) + 1, Len(magic) + dirlen)

ArchiveBinary(magic, dirlen, bytes) ==
    SubSeq(bytes, Len(magic) + dirlen + 1, Len(bytes) - 1)

\* The name of the directory a node archive unpacks to, read from the archive.
DirNameOk(d) ==
    /\ d[1] \in Patches
    /\ \E os \in Os : OsIndex(os) = d[2]
    /\ \E arch \in Arch : ArchIndex(arch) = d[3]

DirNameOf(d) ==
    NodeDirName(VersionOf(d[1]),
                CHOOSE os \in Os : OsIndex(os) = d[2],
                CHOOSE arch \in Arch : ArchIndex(arch) = d[3])

\* --------------------------------------------------------------- lockfile

\* bincode writes the fields of a value in declaration order; a token stands
\* for the bytes of one field.  lockfile_path is #[serde(skip)].
SerializeNodeExecutable(e) ==
    <<e.meta.version, ToString(ArchIndex(e.meta.arch)),
      ToString(OsIndex(e.meta.os)), e.checksum, e.path>>

RECURSIVE SerializeSeq(_)
SerializeSeq(es) ==
    IF es = <<>> THEN <<>>
    ELSE SerializeNodeExecutable(Head(es)) \o SerializeSeq(Tail(es))

SerializeNodeLock(node_executables) ==
    <<ToString(Len(node_executables))>> \o SerializeSeq(node_executables)

SerializeESBuildLock(lock) ==
    IF lock.executable = <<>> THEN <<"0">>
    ELSE <<"1", lock.executable[1].checksum, lock.executable[1].version,
           lock.executable[1].path>>

\* Reading the fields back.  A field that cannot be read makes the whole
\* deserialization fail; bytes after the value are ignored.
IsSemver(tok) == tok \in Versions \cup {ESBUILD_VERSION, EarlierESBuildVersion}
IsVariant(tok) == tok \in {"0", "1", "2"}
OsOfToken(tok) == CHOOSE os \in Os : ToString(OsIndex(os)) = tok
ArchOfToken(tok) == CHOOSE arch \in Arch : ToString(ArchIndex(arch)) = tok
IsCount(tok, max) == \E n \in 0..max : ToString(n) = tok
CountOf(tok, max) == CHOOSE n \in 0..max : ToString(n) = tok

NodeExecutableOk(toks) ==
    /\ Len(toks) >= 5
    /\ IsSemver(toks[1])
    /\ IsVariant(toks[2])
    /\ IsVariant(toks[3])

DeserializeNodeExecutable(toks) ==
    [meta |-> [version |-> toks[1],
               arch |-> ArchOfToken(toks[2]),
               os |-> OsOfToken(toks[3])],
     checksum |-> toks[4],
     path |-> toks[5]]

RECURSIVE DeserializeSeq(_, _)
DeserializeSeq(n, toks) ==
    IF n = 0 THEN [ok |-> TRUE, value |-> <<>>]
    ELSE IF ~NodeExecutableOk(toks) THEN [ok |-> FALSE, value |-> <<>>]
    ELSE LET rest == DeserializeSeq(n - 1, SubSeq(toks, 6, Len(toks)))
         IN  [ok |-> rest.ok,
              value |-> <<DeserializeNodeExecutable(toks)>> \o rest.value]

DeserializeNodeLock(toks) ==
    IF toks = <<>> \/ ~IsCount(toks[1], Len(toks))
    THEN [ok |-> FALSE, value |-> <<>>]
    ELSE DeserializeSeq(CountOf(toks[1], Len(toks)), Tail(toks))

DeserializeESBuildLock(toks) ==
    IF toks = <<>> THEN [ok |-> FALSE, value |-> <<>>]
    ELSE IF toks[1] = "0" THEN [ok |-> TRUE, value |-> <<>>]
    ELSE IF toks[1] = "1" /\ Len(toks) >= 4 /\ IsSemver(toks[3])
         THEN [ok |-> TRUE,
               value |-> <<[checksum |-> toks[2], version |-> toks[3],
                            path |-> toks[4]]>>]
    ELSE [ok |-> FALSE, value |-> <<>>]

\* What an overwritten lockfile holds: bytes that are no bincode value.
Garbage == <<"garbage">>

\* --------------------------------------------------------- manifest parser

\* Text is a sequence of characters (strings of length one); a manifest is
\* the sequence of its lines, as input.lines() gives them.
Digits == {"0", "1", "2", "3", "4", "5", "6", "7", "8", "9"}
LowerHex == <<"0", "1", "2", "3", "4", "5", "6", "7", "8", "9",
              "a", "b", "c", "d", "e", "f">>
HexDigits == {LowerHex[n] : n \in 1..16} \cup {"A", "B", "C", "D", "E", "F"}

RECURSIVE Concat(_)
Concat(chars) ==
    IF chars = <<>> THEN "" ELSE Head(chars) \o Concat(Tail(chars))

\* The result of a nom parser: Ok((rest, value)) or Err; a parser that
\* calls expect on an Err panics.
Parsed(value, rest) == [ok |-> TRUE, panic |-> FALSE, value |-> value, rest |-> rest]
NoParse == [ok |-> FALSE, panic |-> FALSE, value |-> <<>>, rest |-> <<>>]
Panic == [ok |-> FALSE, panic |-> TRUE, value |-> <<>>, rest |-> <<>>]

take(n, input) ==
    IF Len(input) < n THEN NoParse
    ELSE Parsed(SubSeq(input, 1, n), SubSeq(input, n + 1, Len(input)))

tag(t, input) ==
    IF HasPrefix(input, t) THEN Parsed(t, Strip(input, t)) ELSE NoParse

\* alt over tags: the first tag, in the order given, that the input starts
\* with.
RECURSIVE alt(_, _)
alt(tags, input) ==
    IF tags = <<>> THEN NoParse
    ELSE IF tag(Head(tags), input).ok THEN tag(Head(tags), input)
    ELSE alt(Tail(tags), input)

\* hex::decode_to_slice: the bytes of 64 hexadecimal characters, upper or
\* lower case.
HexDecode(chars) ==
    LET upper == <<"A", "B", "C", "D", "E", "F">>
        value(c) == IF c \in Digits \/ \E n \in 11..16 : LowerHex[n] = c
                    THEN (CHOOSE n \in 1..16 : LowerHex[n] = c) - 1
                    ELSE (CHOOSE n \in 1..6 : upper[n] = c) + 9
    IN  [n \in 1..(Len(chars) \div 2) |->
            16 * value(chars[2 * n - 1]) + value(chars[2 * n])]

\* A 32-byte digest as the checksum value Sha256 gives: the digest stands
\* for the bytes it was taken of, written after the zeros that fill it.
ChecksumOfDigest(bytes) ==
    LET zeros == {n \in 1..Len(bytes) : \A m \in 1..n : bytes[m] = 0}
    IN  "sha256:" \o HexJoin(SubSeq(bytes, Cardinality(zeros) + 1, Len(bytes)))

ChecksumLen == 64

parse_checksum(input) ==
    LET taken == take(ChecksumLen, input)
    IN  IF ~taken.ok THEN NoParse
        ELSE IF \E n \in 1..ChecksumLen : taken.value[n] \notin HexDigits
        THEN Panic
        ELSE Parsed(ChecksumOfDigest(HexDecode(taken.value)), taken.rest)

\* recognize(many1(terminated(one_of("0123456789"), many0(char('_'))))):
\* the length of the longest prefix made of digits, each followed by any
\* number of underscores.
RECURSIVE DecimalLen(_)
DecimalLen(input) ==
    IF input = <<>> \/ Head(input) \notin Digits THEN 0
    ELSE LET u == Cardinality({n \in 2..Len(input) :
                                  \A m \in 2..n : input[m] = "_"})
         IN  1 + u + DecimalLen(SubSeq(input, 2 + u, Len(input)))

parse_decimal_number(input) ==
    IF DecimalLen(input) = 0 THEN NoParse
    ELSE Parsed(SubSeq(input, 1, DecimalLen(input)),
                SubSeq(input, DecimalLen(input) + 1, Len(input)))

\* semver::Version::parse on one numeric component: digits only, no leading
\* zero, and a value that fits u64 (at most 18446744073709551615).
SemverNumberOk(chars) ==
    LET max == <<"1", "8", "4", "4", "6", "7", "4", "4", "0", "7", "3", "7", "0", "9", "5", "5", "1", "6", "1", "5">>
        value(c) == CHOOSE n \in 0..9 : ToString(n) = c
        \* the first place where chars and max differ, if any
        differ == {n \in 1..Len(max) : chars[n] # max[n]}
        first == CHOOSE n \in differ : \A m \in differ : n <= m
    IN  /\ \A n \in 1..Len(chars) : chars[n] \in Digits
        /\ Len(chars) > 1 => Head(chars) # "0"
        /\ \/ Len(chars) < Len(max)
           \/ /\ Len(chars) = Len(max)
              /\ differ # {} => value(chars[first]) < value(max[first])

parse_version(input) ==
    LET major == parse_decimal_number(input)
        dot1 == tag(<<".">>, major.rest)
        minor == parse_decimal_number(dot1.rest)
        dot2 == tag(<<".">>, minor.rest)
        patch == parse_decimal_number(dot2.rest)
    IN  IF ~major.ok THEN NoParse
        ELSE IF ~dot1.ok THEN NoParse
        ELSE IF ~minor.ok THEN NoParse
        ELSE IF ~dot2.ok THEN NoParse
        ELSE IF ~patch.ok THEN NoParse
        ELSE IF ~(/\ SemverNumberOk(major.value)
                  /\ SemverNumberOk(minor.value)
                  /\ SemverNumberOk(patch.value))
        THEN Panic
        ELSE Parsed(Concat(major.value) \o "." \o Concat(minor.value)
                        \o "." \o Concat(patch.value),
                    patch.rest)

OsTags == <<<<"w", "i", "n">>, <<"d", "a", "r", "w", "i", "n">>, <<"l", "i", "n", "u", "x">>>>

parse_os(input) ==
    LET os_str == alt(OsTags, input)
        name == Concat(os_str.value)
    IN  IF ~os_str.ok THEN NoParse
        ELSE Parsed(IF name = "win" THEN "Windows"
                    ELSE IF name = "darwin" THEN "MacOS"
                    ELSE "Linux",
                    os_str.rest)

ArchTags == <<<<"a", "r", "m", "6", "4">>, <<"a", "a", "r", "c", "h", "6", "4">>, <<"x", "6", "4">>, <<"x", "8", "6">>, <<"x", "8", "6", "_", "6", "4">>>>

parse_arch(input) ==
    LET arch_str == alt(ArchTags, input)
        name == Concat(arch_str.value)
    IN  IF ~arch_str.ok THEN NoParse
        ELSE Parsed(IF name \in {"arm64", "aarch64"} THEN "Arm64"
                    ELSE IF name \in {"x64", "x86_64"} THEN "X64"
                    ELSE "X86",
                    arch_str.rest)

NodePrefix == <<" ", " ", "n", "o", "d", "e", "-", "v">>
ExtTags == <<<<".", "t", "a", "r", ".", "g", "z">>, <<".", "z", "i", "p">>>>

\* One line: checksum, "  node-v", version, "-", os, "-", arch, extension.
\* Whatever follows the extension is left unread.
parse_checksum_file_entry(input) ==
    LET checksum == parse_checksum(input)
        prefix == tag(NodePrefix, checksum.rest)
        version == parse_version(prefix.rest)
        dash1 == tag(<<"-">>, version.rest)
        os == parse_os(dash1.rest)
        dash2 == tag(<<"-">>, os.rest)
        arch == parse_arch(dash2.rest)
        ext == alt(ExtTags, arch.rest)
    IN  IF ~checksum.ok THEN checksum
        ELSE IF ~prefix.ok THEN NoParse
        ELSE IF ~version.ok THEN version
        ELSE IF ~dash1.ok THEN NoParse
        ELSE IF ~os.ok THEN NoParse
        ELSE IF ~dash2.ok THEN NoParse
        ELSE IF ~arch.ok THEN NoParse
        ELSE IF ~ext.ok THEN NoParse
        ELSE Parsed([checksum |-> checksum.value,
                     meta |-> [version |-> version.value,
                               arch |-> arch.value,
                               os |-> os.value]],
                    ext.rest)

\* parse_checksum_file: the entries of the lines that parse, in line order;
\* UnparseableChecksumFile when there are none.  A line that panics ends
\* the process.
RECURSIVE ParseLines(_)
ParseLines(lines) ==
    IF lines = <<>> THEN [panic |-> FALSE, entries |-> <<>>]
    ELSE LET first == parse_checksum_file_entry(Head(lines))
             others == ParseLines(Tail(lines))
         IN  IF first.panic THEN [panic |-> TRUE, entries |-> <<>>]
             ELSE IF others.panic THEN others
             ELSE [panic |-> FALSE,
                   entries |-> (IF first.ok THEN <<first.value>> ELSE <<>>)
                                  \o others.entries]

parse_checksum_file(lines) ==
    LET parsed == ParseLines(lines)
    IN  IF parsed.panic THEN [result |-> "panic", entries |-> <<>>]
        ELSE IF parsed.entries = <<>>
        THEN [result |-> "UnparseableChecksumFile", entries |-> <<>>]
        ELSE [result |-> "Ok", entries |-> parsed.entries]

\* ------------------------------------------------------ the served manifest

HexEncode(bytes) ==
    [n \in 1..(2 * Len(bytes)) |->
        IF n % 2 = 1 THEN LowerHex[(bytes[(n + 1) \div 2] \div 16) + 1]
        ELSE LowerHex[(bytes[n \div 2] % 16) + 1]]

\* The 32 bytes of a file's SHA-256, in the representation Sha256 uses: the
\* digest determines the bytes.
Digest(bytes) == [n \in 1..(32 - Len(bytes)) |-> 0] \o bytes

OsChars(os) ==
    CASE os = "MacOS" -> <<"d", "a", "r", "w", "i", "n">>
      [] os = "Linux" -> <<"l", "i", "n", "u", "x">>
      [] os = "Windows" -> <<"w", "i", "n">>

ArchChars(arch) ==
    CASE arch = "X64" -> <<"x", "6", "4">>
      [] arch = "X86" -> <<"x", "8", "6">>
      [] arch = "Arm64" -> <<"a", "r", "m", "6", "4">>

\* SHASUMS256.txt as served at https://nodejs.org/dist/v{version}/: the lines
\* of files the tool does not install (an unsupported platform, an
\* installer, the headers, another compression), the lines of the published
\* archives, and the line of a single file.
SHASUMS256(version) ==
    LET name == NodePrefix \o <<"2", "2", ".", "3", ".">> \o <<ToString(PatchOf(version))>>
        others == << <<"-", "a", "i", "x", "-", "p", "p", "c", "6", "4", ".", "t", "a", "r", ".", "g", "z">>,
                     <<"-", "a", "r", "m", "6", "4", ".", "m", "s", "i">>,
                     <<"-", "h", "e", "a", "d", "e", "r", "s", ".", "t", "a", "r", ".", "g", "z">>,
                     <<"-", "d", "a", "r", "w", "i", "n", "-", "a", "r", "m", "6", "4", ".", "t", "a", "r", ".", "x", "z">> >>
        archive(os, arch) ==
            HexEncode(Digest(NodeArchive(version, os, arch))) \o name \o <<"-">>
                \o OsChars(os) \o <<"-">> \o ArchChars(arch)
                \o (IF os = "Windows" THEN <<".", "z", "i", "p">> ELSE <<".", "t", "a", "r", ".", "g", "z">>)
    IN  [n \in 1..Len(others) |-> HexEncode(Digest(<<n>>)) \o name \o others[n]]
            \o [n \in 1..Len(Published) |-> archive(Published[n][1], Published[n][2])]
            \o <<HexEncode(Digest(<<9>>)) \o <<" ", " ", "w", "i", "n", "-", "x", "6", "4", "/", "n", "o", "d", "e", ".", "e", "x", "e">>>>

\* The parsed SHASUMS256.txt of a version: one (checksum, meta) per published
\* platform.
\* The parsed SHASUMS256.txt of a version: one (checksum, meta) per published
\* platform, in the order of the lines.
PublishedChecksums(version) ==
    [n \in 1..Len(Published) |->
        [checksum |-> Sha256(NodeArchive(version, Published[n][1], Published[n][2])),
         meta |-> [version |-> version,
                   arch |-> Published[n][2],
                   os |-> Published[n][1]]]]

\* parse_checksum_file makes PublishedChecksums(version) of
\* SHASUMS256(version): the steps of the manager read the one for the other.
ServedManifestParsed ==
    \A version \in Versions :
        parse_checksum_file(SHASUMS256(version)) =
            [result |-> "Ok", entries |-> PublishedChecksums(version)]

\* What reqwest::blocking::get(url) and text() give for the manifest's URL:
\* a transport failure, or a status and a body.  The first is the response
\* of a healthy server over a healthy connection, whose body is
\* SHASUMS256(version); the last two are error pages, one of short lines and
\* one that is a single long line.
ManifestResponses ==
    {[healthy |-> TRUE, transport |-> TRUE, status |-> 200, page |-> <<>>],
     [healthy |-> FALSE, transport |-> FALSE, status |-> 0, page |-> <<>>],
     [healthy |-> FALSE, transport |-> TRUE, status |-> 200, page |-> <<>>],
     [healthy |-> FALSE, transport |-> TRUE, status |-> 404,
      page |-> << <<"<", "h", "t", "m", "l", ">">>,
                  <<"<", "h", "e", "a", "d", ">", "<", "t", "i", "t", "l", "e", ">", "4", "0", "4", " ", "N", "o", "t", " ", "F", "o", "u", "n", "d", "<", "/", "t", "i", "t", "l", "e", ">", "<", "/", "h", "e", "a", "d", ">">>,
                  <<"<", "b", "o", "d", "y", ">", "<", "h", "1", ">", "4", "0", "4", " ", "N", "o", "t", " ", "F", "o", "u", "n", "d", "<", "/", "h", "1", ">", "<", "/", "b", "o", "d", "y", ">">>,
                  <<"<", "/", "h", "t", "m", "l", ">">> >>],
     [healthy |-> FALSE, transport |-> TRUE, status |-> 502,
      page |-> << <<"<", "h", "t", "m", "l", ">", "<", "h", "e", "a", "d", ">", "<", "t", "i", "t", "l", "e", ">", "5", "0", "2", " ", "B", "a", "d", " ", "G", "a", "t", "e", "w", "a", "y", "<", "/", "t", "i", "t", "l", "e", ">", "<", "/", "h", "e", "a", "d", ">", "<", "b", "o", "d", "y", ">", "<", "h", "1", ">", "5", "0", "2", " ", "B", "a", "d", " ", "G", "a", "t", "e", "w", "a", "y", "<", "/", "h", "1", ">", "<", "/", "b", "o", "d", "y", ">", "<", "/", "h", "t", "m", "l", ">">> >>]}

\* ------------------------------------------------------------------ state

VARIABLES
    kind,       \* "node" (NodeManager) or "esbuild" (ESBuild): the manager followed
    procs,      \* the processes (tool invocations) that run
    mgr,        \* per process: the manager object, or NoManager
    pc,         \* per process: "none" (no manager), "idle", or the step of a call
    call,       \* per process: the running call's arguments and locals
    ret,        \* per process: what the last call returned
    dir,        \* whether the cache directory exists
    cache,      \* the files of the cache directory: path -> contents
    scratch,    \* per process: the files of its scratch directory
    calls,      \* public calls started
    faults,     \* failures injected
    tampers,    \* outside changes made
    input,      \* the lines of a manifest text given to parse_checksum_file
    output      \* what parse_checksum_file made of input, or NotParsed

vars == <<kind, procs, mgr, pc, call, ret, dir, cache, scratch, calls, faults, tampers,
          input, output>>

Proc == {1, 2}

NoManager == [lockfile |-> <<>>]

\* A call's record.  events and before are history: the steps the call has
\* taken so far, and the cache directory, the in-memory lockfile and the
\* count of failures as they were when the call started.
NoCall ==
    [op |-> "", version |-> "", os |-> "", arch |-> "", arg |-> <<>>,
     expected |-> "", actual |-> "", meta |-> <<>>, archive |-> "",
     executable |-> "", blob |-> "", events |-> <<>>, before |-> <<>>]

NoReturn ==
    [op |-> "", version |-> "", os |-> "", arch |-> "", arg |-> <<>>,
     ok |-> FALSE, err |-> "", path |-> "", bytes |-> <<>>, events |-> <<>>,
     before |-> <<>>]

NotParsed == [result |-> "", entries |-> <<>>]

Empty == [p \in {} |-> <<>>]
Write(fs, path, contents) ==
    [p \in DOMAIN fs \cup {path} |-> IF p = path THEN contents ELSE fs[p]]
Delete(fs, path) == [p \in DOMAIN fs \ {path} |-> fs[p]]
Exists(fs, path) == path \in DOMAIN fs

\* A file of a scratch directory: its bytes and whether it may be executed.
File(bytes) == [bytes |-> bytes, mode |-> "0o644"]

Ok(c, path) ==
    [op |-> c.op, version |-> c.version, os |-> c.os, arch |-> c.arch,
     arg |-> c.arg, ok |-> TRUE, err |-> "", path |-> path, bytes |-> <<>>,
     events |-> c.events, before |-> c.before]

\* The Ok(binary_path) of a get call, with the bytes the caller finds there.
Binary(i, c, path) == [Ok(c, path) EXCEPT !.bytes = scratch[i][path].bytes]

Err(c, e) ==
    [op |-> c.op, version |-> c.version, os |-> c.os, arch |-> c.arch,
     arg |-> c.arg, ok |-> FALSE, err |-> e, path |-> "", bytes |-> <<>>,
     events |-> c.events, before |-> c.before]

Event(c, e) == [c EXCEPT !.events = Append(@, e)]

Snapshot(i) ==
    [cache |-> cache, lock |-> mgr[i].lockfile, faults |-> faults,
     tampers |-> tampers]
Start(i, op) == [NoCall EXCEPT !.op = op, !.before = Snapshot(i)]

Goto(i, label, c) ==
    /\ pc' = [pc EXCEPT ![i] = label]
    /\ call' = [call EXCEPT ![i] = c]
    /\ ret' = ret

\* The end of a call.  A construction that fails gives no manager, and a
\* call that panics ends the process: either way the next step is a new
\* construction.
Return(i, r) ==
    /\ pc' = [pc EXCEPT ![i] = IF (r.op = "new" /\ ~r.ok) \/ r.err = "panic"
                              THEN "none" ELSE "idle"]
    /\ call' = [call EXCEPT ![i] = NoCall]
    /\ ret' = [ret EXCEPT ![i] = r]

\* A step that may fail for a reason outside the program (a full disk, a
\* dropped connection) draws fail from Failing.
Failing == IF faults < MaxFaults THEN {FALSE, TRUE} ELSE {FALSE}
Count(fail) == faults' = IF fail THEN faults + 1 ELSE faults

Begin(i, k) ==
    /\ kind = k
    /\ i \in procs
    /\ pc[i] = "idle"
    /\ calls < MaxCalls
    /\ calls' = calls + 1
    /\ UNCHANGED <<input, output>>

At(i, k, label) ==
    /\ kind = k
    /\ pc[i] = label
    /\ calls' = calls
    /\ UNCHANGED <<input, output>>

AllIdle == \A i \in procs : pc[i] \in {"none", "idle"}

\* The step in which process i's call returns.
Returns(i) == pc[i] \notin {"none", "idle"} /\ pc'[i] \in {"none", "idle"}

Init ==
    /\ kind \in {"node", "esbuild"}
    /\ procs = {1}
    /\ mgr = [i \in Proc |-> NoManager]
    /\ pc = [i \in Proc |-> "none"]
    /\ call = [i \in Proc |-> NoCall]
    /\ ret = [i \in Proc |-> NoReturn]
    /\ dir = TRUE
    /\ cache = Empty
    /\ scratch = [i \in Proc |-> Empty]
    /\ calls = 0
    /\ faults = 0
    /\ tampers = 0
    /\ input = <<>>
    /\ output = NotParsed

\* --------------------------------------------------------- NodeManagerLock

NodeManagerLock_new(node_executables, lockfile_path) ==
    [node_executables |-> node_executables, lockfile_path |-> lockfile_path]

\* A lookup that never finds anything.
find_nothing(lock, version, os, arch) == <<>>

\* A lookup that matches on the version alone.
find_any_platform(lock, version, os, arch) ==
    LET hits == {n \in 1..Len(lock.node_executables) :
                    lock.node_executables[n].meta.version = version}
    IN  IF hits = {} THEN <<>>
        ELSE <<lock.node_executables[CHOOSE n \in hits : \A m \in hits : n <= m]>>

\* The first entry with the version, os and arch asked for, if any.
find(lock, version, os, arch) ==
    LET hits == {n \in 1..Len(lock.node_executables) :
                    /\ lock.node_executables[n].meta.version = version
                    /\ lock.node_executables[n].meta.arch = arch
                    /\ lock.node_executables[n].meta.os = os}
    IN  IF hits = {} THEN <<>>
        ELSE <<lock.node_executables[CHOOSE n \in hits : \A m \in hits : n <= m]>>

\* An insert that keeps the new entry alone.
insert_replacing(lock, node_executable) ==
    [lock EXCEPT !.node_executables = <<node_executable>>]

insert(lock, node_executable) ==
    [lock EXCEPT !.node_executables = Append(@, node_executable)]

RECURSIVE Without(_, _)
Without(es, meta) ==
    IF es = <<>> THEN <<>>
    ELSE IF Head(es).meta = meta THEN Without(Tail(es), meta)
    ELSE <<Head(es)>> \o Without(Tail(es), meta)

NodeManagerLock_remove(lock, node_executable) ==
    [lock EXCEPT !.node_executables = Without(@, node_executable.meta)]

\* NodeManagerLock::load: read the file, deserialize the list, keep the path.
NodeManagerLock_load(lockfile_path) ==
    LET node_executables == DeserializeNodeLock(cache[lockfile_path])
    IN  IF ~Exists(cache, lockfile_path)
        THEN [err |-> "Io", lock |-> NodeManagerLock_new(<<>>, lockfile_path)]
        ELSE IF ~node_executables.ok
        THEN [err |-> "LockfileSerialization",
              lock |-> NodeManagerLock_new(<<>>, lockfile_path)]
        ELSE [err |-> "",
              lock |-> NodeManagerLock_new(node_executables.value, lockfile_path)]

\* ------------------------------------------------------------- NodeManager

SetLock(i, lock) == mgr' = [mgr EXCEPT ![i].lockfile = lock]

\* A constructor that passes a deserialization error on.
NodeLockfileAtStart_strict ==
    IF ~Exists(cache, LockfilePath)
    THEN [err |-> "", lock |-> NodeManagerLock_new(<<>>, LockfilePath)]
    ELSE NodeManagerLock_load(LockfilePath)

\* What NodeManager::new makes of the lockfile: the loaded list, or an empty
\* one when there is no file or the file does not deserialize.  err is the
\* error new returns, "" when it goes on.
NodeLockfileAtStart ==
    LET loaded == NodeManagerLock_load(LockfilePath)
    IN  IF ~Exists(cache, LockfilePath) \/ loaded.err = "LockfileSerialization"
        THEN [err |-> "", lock |-> NodeManagerLock_new(<<>>, LockfilePath)]
        ELSE loaded

\* A process starts and calls NodeManager::new.  A process that had a
\* manager has been started again.
start_node(i, target) ==
    /\ kind = "node"
    /\ i \in procs
    /\ pc[i] \in {"none", "idle"}
    /\ calls < MaxCalls
    /\ calls' = calls + 1
    /\ Goto(i, "new", [Start(i, "new") EXCEPT !.os = target[1], !.arch = target[2]])
    /\ UNCHANGED <<kind, procs, mgr, dir, cache, scratch, faults, tampers, input, output>>

\* NodeManager::new: load the lockfile, create the scratch directory.
NodeManager_new(i) ==
    /\ At(i, "node", "new")
    /\ \E fail \in Failing :
        /\ Count(fail)
        /\ LET c == call[i]
               start == NodeLockfileAtStart
           IN  IF fail THEN Return(i, Err(c, "Io")) /\ mgr' = [mgr EXCEPT ![i] = NoManager]
               ELSE IF start.err # ""
               THEN Return(i, Err(c, start.err)) /\ mgr' = [mgr EXCEPT ![i] = NoManager]
               ELSE /\ Return(i, Ok(c, ""))
                    /\ mgr' = [mgr EXCEPT ![i] =
                          [host_os |-> get_host_os, host_arch |-> get_host_arch,
                           target_os |-> c.os, target_arch |-> c.arch,
                           node_cache_dir |-> CacheDir,
                           lockfile |-> start.lock,
                           tmp_dir |-> ScratchRoot(i)]]
    /\ scratch' = [scratch EXCEPT ![i] = Empty]
    /\ UNCHANGED <<kind, procs, dir, cache, tampers>>

\* A get that goes to the network whatever the store holds.
get_binary_refetching(i, op, version, os, arch) ==
    /\ Begin(i, "node")
    /\ LET binary == find(mgr[i].lockfile, version, os, arch)
           c == [Start(i, op) EXCEPT !.version = version,
                                     !.os = os, !.arch = arch, !.arg = binary]
       IN  Goto(i, "download_checksums", Event(c, "miss"))
    /\ UNCHANGED <<kind, procs, mgr, dir, cache, scratch, faults, tampers>>

\* The lookup that opens get_host_binary and get_target_binary.
get_binary(i, op, version, os, arch) ==
    /\ Begin(i, "node")
    /\ LET binary == find(mgr[i].lockfile, version, os, arch)
           c == [Start(i, op) EXCEPT !.version = version,
                                     !.os = os, !.arch = arch, !.arg = binary]
       IN  IF binary # <<>>
           THEN Goto(i, "unpack_archive", Event(c, "hit"))
           ELSE Goto(i, "download_checksums", Event(c, "miss"))
    /\ UNCHANGED <<kind, procs, mgr, dir, cache, scratch, faults, tampers>>

get_host_binary(i, version) ==
    get_binary(i, "get_host_binary", version, mgr[i].host_os, mgr[i].host_arch)

get_target_binary(i, version) ==
    get_binary(i, "get_target_binary", version, mgr[i].target_os, mgr[i].target_arch)

\* NodeManager::unpack_archive: zstd-decode the blob into the scratch directory.
ExtractedPath(i, meta) ==
    Join(ScratchRoot(i),
         NodeDirName(meta.version, meta.os, meta.arch) \o ".exe")

\* An unpack that answers a missing blob by downloading it again.
unpack_archive_healing(i) ==
    /\ At(i, "node", "unpack_archive")
    /\ \E fail \in Failing :
        /\ Count(fail)
        /\ LET c == call[i]
               node_archive == c.arg[1]
               extracted_binary_path == ExtractedPath(i, node_archive.meta)
           IN  IF fail
               THEN Return(i, Err(c, "Io")) /\ scratch' = scratch
               ELSE IF ~Exists(cache, node_archive.path)
               THEN Goto(i, "download_checksums", c) /\ scratch' = scratch
               ELSE IF ~ZstdOk(cache[node_archive.path])
               THEN /\ Return(i, Err(c, "Io"))
                    /\ scratch' = [scratch EXCEPT ![i] =
                           Write(@, extracted_binary_path, File(<<>>))]
               ELSE /\ Goto(i, "make_executable",
                            [Event(c, "decompress") EXCEPT
                                !.executable = extracted_binary_path])
                    /\ scratch' = [scratch EXCEPT ![i] =
                           Write(@, extracted_binary_path,
                                 File(ZstdDecode(cache[node_archive.path])))]
    /\ UNCHANGED <<kind, procs, mgr, dir, cache, tampers>>

unpack_archive(i) ==
    /\ At(i, "node", "unpack_archive")
    /\ \E fail \in Failing :
        /\ Count(fail)
        /\ LET c == call[i]
               node_archive == c.arg[1]
               extracted_binary_path == ExtractedPath(i, node_archive.meta)
           IN  IF fail \/ ~Exists(cache, node_archive.path)
               THEN Return(i, Err(c, "Io")) /\ scratch' = scratch
               ELSE IF ~ZstdOk(cache[node_archive.path])
               THEN /\ Return(i, Err(c, "Io"))
                    /\ scratch' = [scratch EXCEPT ![i] =
                           Write(@, extracted_binary_path, File(<<>>))]
               ELSE /\ Goto(i, "make_executable",
                            [Event(c, "decompress") EXCEPT
                                !.executable = extracted_binary_path])
                    /\ scratch' = [scratch EXCEPT ![i] =
                           Write(@, extracted_binary_path,
                                 File(ZstdDecode(cache[node_archive.path])))]
    /\ UNCHANGED <<kind, procs, mgr, dir, cache, tampers>>

\* The end of get_*_binary with the permissions left as they are.
make_executable_skipped(i) ==
    /\ At(i, "node", "make_executable")
    /\ \E fail \in Failing :
        /\ Count(fail)
        /\ LET c == call[i]
           IN  IF fail \/ ~Exists(scratch[i], c.executable)
               THEN Return(i, Err(c, "Io"))
               ELSE Return(i, Binary(i, c, c.executable))
    /\ UNCHANGED <<kind, procs, mgr, dir, cache, scratch, tampers>>

\* make_executable, then the Ok(binary_path) that ends get_*_binary.
make_executable(i) ==
    /\ At(i, "node", "make_executable")
    /\ \E fail \in Failing :
        /\ Count(fail)
        /\ LET c == call[i]
           IN  IF fail \/ ~Exists(scratch[i], c.executable)
               THEN Return(i, Err(c, "Io")) /\ scratch' = scratch
               ELSE /\ Return(i, Binary(i, c, c.executable))
                    /\ scratch' = [scratch EXCEPT ![i][c.executable].mode = "0o755"]
    /\ UNCHANGED <<kind, procs, mgr, dir, cache, tampers>>

\* ---------------------------------------------------- NodeManager::download

\* How a request to the network may end when failures can still be injected.
Outcomes(bad) == IF faults < MaxFaults THEN {"ok"} \cup bad ELSE {"ok"}
CountOutcome(o) == faults' = IF o = "ok" THEN faults ELSE faults + 1

\* A search of the manifest that matches on the version alone.
FindChecksum_any_platform(checksums, version, os, arch) ==
    LET hits == {n \in 1..Len(checksums) : checksums[n].meta.version = version}
    IN  IF hits = {} THEN <<>>
        ELSE <<checksums[CHOOSE n \in hits : \A m \in hits : n <= m]>>

\* The first manifest entry for the version, os and arch asked for, if any.
FindChecksum(checksums, version, os, arch) ==
    LET hits == {n \in 1..Len(checksums) :
                    /\ checksums[n].meta.version = version
                    /\ checksums[n].meta.os = os
                    /\ checksums[n].meta.arch = arch}
    IN  IF hits = {} THEN <<>>
        ELSE <<checksums[CHOOSE n \in hits : \A m \in hits : n <= m]>>

\* download_checksums and the search for the platform's line.  The status of
\* the response is not looked at: whatever body arrives is parsed.
download_checksums(i) ==
    /\ At(i, "node", "download_checksums")
    /\ \E response \in ManifestResponses :
       \* parse_checksum_file of the body (see ServedManifestParsed)
       \E checksums \in {IF response.healthy
                         THEN [result |-> "Ok",
                               entries |-> PublishedChecksums(call[i].version)]
                         ELSE parse_checksum_file(response.page)} :
        LET healthy == response.healthy
            fetched == Event(call[i], "manifest")
            c == IF response.transport /\ response.status >= 400
                 THEN Event(Event(fetched, "http_error"), "parse")
                 ELSE IF response.transport THEN Event(fetched, "parse")
                 ELSE fetched
            found == FindChecksum(checksums.entries, c.version, c.os, c.arch)
        IN  /\ healthy \/ faults < MaxFaults
            /\ faults' = IF healthy THEN faults ELSE faults + 1
            /\ IF ~response.transport THEN Return(i, Err(c, "Download"))
               ELSE IF checksums.result # "Ok" THEN Return(i, Err(c, checksums.result))
               ELSE IF found = <<>> THEN Return(i, Err(c, "NodeBinaryDNE"))
               ELSE Goto(i, "download_node_archive",
                         [c EXCEPT !.expected = found[1].checksum,
                                   !.meta = found[1].meta])
    /\ UNCHANGED <<kind, procs, mgr, dir, cache, scratch, tampers>>

\* A download to one place for every process.
DownloadedArchivePath_shared(i, os) ==
    Join("tmp", IF os = "Windows" THEN "node.zip" ELSE "node.tar.gz")

DownloadedArchivePath(i, os) ==
    Join(ScratchRoot(i), IF os = "Windows" THEN "node.zip" ELSE "node.tar.gz")

\* What a transfer delivers: the published bytes, or (a failure) the
\* published bytes with the byte at one place changed.
Received(bytes, o, at) == IF o = "corrupt" THEN Flip(bytes, at) ELSE bytes

download_node_archive(i) ==
    /\ At(i, "node", "download_node_archive")
    /\ LET c == Event(call[i], "archive")
           published == NodeArchive(c.version, c.os, c.arch)
           file_name == DownloadedArchivePath(i, c.os)
       IN  \E o \in Outcomes({"Download", "Io", "corrupt"}) :
           \E at \in IF o = "corrupt" THEN Places(published) ELSE {1} :
            /\ CountOutcome(o)
            /\ IF o \in {"Download", "Io"}
               THEN Return(i, Err(c, o)) /\ scratch' = scratch
               ELSE /\ Goto(i, "calculate_checksum", [c EXCEPT !.archive = file_name])
                    /\ scratch' = [scratch EXCEPT ![i] =
                           Write(@, file_name, File(Received(published, o, at)))]
    /\ UNCHANGED <<kind, procs, mgr, dir, cache, tampers>>

\* calculate_checksum of the downloaded archive against the manifest's.
\* The comparison with the refusal left out: every archive is accepted.
ChecksumsMatch_accept_all(actual_checksum, checksum) == TRUE

ChecksumsMatch(actual_checksum, checksum) == actual_checksum = checksum

calculate_checksum(i) ==
    /\ At(i, "node", "calculate_checksum")
    /\ \E fail \in Failing :
        /\ Count(fail)
        /\ LET c == call[i]
           IN  IF fail \/ ~Exists(scratch[i], c.archive)
               THEN Return(i, Err(c, "Io"))
               ELSE Goto(i, "verify",
                         [c EXCEPT !.actual = Sha256(scratch[i][c.archive].bytes)])
    /\ UNCHANGED <<kind, procs, mgr, dir, cache, scratch, tampers>>

\* A comparison that starts the download again when the digests differ.
verify_retry(i) ==
    /\ At(i, "node", "verify")
    /\ LET c == call[i]
       IN  IF ~ChecksumsMatch(c.actual, c.expected)
           THEN Goto(i, "download_checksums", Event(c, "mismatch"))
           ELSE Goto(i, "unpack_downloaded", Event(c, "authentic"))
    /\ UNCHANGED <<kind, procs, mgr, dir, cache, scratch, faults, tampers>>

verify(i) ==
    /\ At(i, "node", "verify")
    /\ LET c == call[i]
       IN  IF ~ChecksumsMatch(c.actual, c.expected)
           THEN Return(i, Err(Event(c, "mismatch"), "ChecksumMismatch"))
           ELSE Goto(i, "unpack_downloaded", Event(c, "authentic"))
    /\ UNCHANGED <<kind, procs, mgr, dir, cache, scratch, faults, tampers>>

\* unpack_downloaded_node_archive: the archive's tree goes to the scratch
\* directory; the path returned is computed from version, os and arch.
NodeExecutablePath(i, version, os, arch) ==
    Join(Join(ScratchRoot(i), NodeDirName(version, os, arch)),
         IF os = "Windows" THEN "node.exe" ELSE "bin/node")

unpack_downloaded_node_archive(i) ==
    /\ At(i, "node", "unpack_downloaded")
    /\ \E fail \in Failing :
        /\ Count(fail)
        /\ LET c == Event(call[i], "unpack")
               bytes == scratch[i][c.archive].bytes
               magic == ArchiveMagic(c.os)
               d == ArchiveDir(magic, 3, bytes)
               extracted == Join(Join(ScratchRoot(i), DirNameOf(d)),
                                 IF c.os = "Windows" THEN "node.exe" ELSE "bin/node")
           IN  IF fail \/ ~ArchiveOk(magic, 3, bytes) \/ ~DirNameOk(d)
               THEN Return(i, Err(c, "Io")) /\ scratch' = scratch
               ELSE /\ Goto(i, "repack_create",
                            [c EXCEPT !.executable =
                                NodeExecutablePath(i, c.version, c.os, c.arch)])
                    /\ scratch' = [scratch EXCEPT ![i] =
                           Write(@, extracted,
                                 [bytes |-> ArchiveBinary(magic, 3, bytes),
                                  mode |-> "0o755"])]
    /\ UNCHANGED <<kind, procs, mgr, dir, cache, tampers>>

\* repack_node_binary, first half: File::create truncates the blob.
NodeArchivePath(version, os, arch) ==
    Join(CacheDir, NodeDirName(version, os, arch) \o ".zst")

repack_create(i) ==
    /\ At(i, "node", "repack_create")
    /\ \E fail \in Failing :
        /\ Count(fail)
        /\ LET c == Event(call[i], "repack")
               archive_path == NodeArchivePath(c.version, c.os, c.arch)
           IN  IF fail \/ ~dir
               THEN Return(i, Err(c, "Io")) /\ cache' = cache
               ELSE /\ Goto(i, "repack_write", [c EXCEPT !.blob = archive_path])
                    /\ cache' = Write(cache, archive_path, <<>>)
    /\ UNCHANGED <<kind, procs, mgr, dir, scratch, tampers>>

\* repack_node_binary, second half: read the executable, write the frame.
repack_write(i) ==
    /\ At(i, "node", "repack_write")
    /\ \E fail \in Failing :
        /\ Count(fail)
        /\ LET c == call[i]
           IN  IF fail \/ ~Exists(scratch[i], c.executable)
               THEN Return(i, Err(c, "Io")) /\ cache' = cache
               ELSE /\ Goto(i, "checksum", c)
                    /\ cache' = Write(cache, c.blob,
                                      ZstdEncode(scratch[i][c.executable].bytes))
    /\ UNCHANGED <<kind, procs, mgr, dir, scratch, tampers>>

\* calculate_checksum of the new blob, then lockfile.add.
checksum_and_add(i) ==
    /\ At(i, "node", "checksum")
    /\ \E fail \in Failing :
        /\ Count(fail)
        /\ LET c == call[i]
               archive_checksum == Sha256(cache[c.blob])
           IN  IF fail \/ ~Exists(cache, c.blob)
               THEN Return(i, Err(c, "Io")) /\ mgr' = mgr
               ELSE /\ Goto(i, "save", Event(Event(c, "checksum"), "add"))
                    /\ SetLock(i, insert(mgr[i].lockfile,
                                         [meta |-> c.meta,
                                          checksum |-> archive_checksum,
                                          path |-> c.blob]))
    /\ UNCHANGED <<kind, procs, dir, cache, scratch, tampers>>

\* A save that writes nothing.
NodeManagerLock_save_nothing(lock) == cache

\* A save that keeps what the file holds: the entries on disk that the list
\* lacks are written back in front of the list.
NodeManagerLock_save_merging(lock) ==
    LET on_disk == IF Exists(cache, lock.lockfile_path)
                      /\ DeserializeNodeLock(cache[lock.lockfile_path]).ok
                   THEN DeserializeNodeLock(cache[lock.lockfile_path]).value
                   ELSE <<>>
        kept == SelectSeq(on_disk, LAMBDA e :
                    \A n \in DOMAIN lock.node_executables :
                        lock.node_executables[n].meta # e.meta)
    IN  Write(cache, lock.lockfile_path,
              SerializeNodeLock(kept \o lock.node_executables))

\* NodeManagerLock::save: the whole list replaces the file.
NodeManagerLock_save(lock) ==
    Write(cache, lock.lockfile_path, SerializeNodeLock(lock.node_executables))

\* The save with its result dropped: download goes on whether or not the
\* lockfile was written.
save_after_download_ignored(i) ==
    /\ At(i, "node", "save")
    /\ \E fail \in Failing :
        /\ Count(fail)
        /\ Goto(i, "make_executable", Event(call[i], "save"))
        /\ cache' = IF fail \/ ~dir THEN cache ELSE NodeManagerLock_save(mgr[i].lockfile)
    /\ UNCHANGED <<kind, procs, mgr, dir, scratch, tampers>>

\* lockfile.save() at the end of download; download's Ok goes on to
\* make_executable.
save_after_download(i) ==
    /\ At(i, "node", "save")
    /\ \E fail \in Failing :
        /\ Count(fail)
        /\ LET c == call[i]
           IN  IF fail \/ ~dir
               THEN Return(i, Err(c, "Io")) /\ cache' = cache
               ELSE /\ Goto(i, "make_executable", Event(c, "save"))
                    /\ cache' = NodeManagerLock_save(mgr[i].lockfile)
    /\ UNCHANGED <<kind, procs, mgr, dir, scratch, tampers>>

\* ------------------------------------------- NodeManager::remove, clean_cache

\* NodeManager::remove is called.
remove(i, node_executable) ==
    /\ Begin(i, "node")
    /\ Goto(i, "lockfile_remove",
            [Start(i, "remove") EXCEPT !.arg = <<node_executable>>,
                                       !.version = node_executable.meta.version,
                                       !.os = node_executable.meta.os,
                                       !.arch = node_executable.meta.arch])
    /\ UNCHANGED <<kind, procs, mgr, dir, cache, scratch, faults, tampers>>

\* remove, first half: the entry leaves the lockfile, which is saved.
lockfile_remove(i) ==
    /\ At(i, "node", "lockfile_remove")
    /\ \E fail \in Failing :
        /\ Count(fail)
        /\ LET c == call[i]
               lock == NodeManagerLock_remove(mgr[i].lockfile, c.arg[1])
           IN  /\ SetLock(i, lock)
               /\ IF fail \/ ~dir
                  THEN Return(i, Err(c, "Io")) /\ cache' = cache
                  ELSE /\ Goto(i, "remove_file", Event(c, "save"))
                       /\ cache' = NodeManagerLock_save(lock)
    /\ UNCHANGED <<kind, procs, dir, scratch, tampers>>

\* A second half that leaves the blob where it is.
remove_file_keep(i) ==
    /\ At(i, "node", "remove_file")
    /\ Return(i, Ok(call[i], ""))
    /\ UNCHANGED <<kind, procs, mgr, dir, cache, scratch, faults, tampers>>

\* remove, second half: fs::remove_file of the blob.
remove_file(i) ==
    /\ At(i, "node", "remove_file")
    /\ \E fail \in Failing :
        /\ Count(fail)
        /\ LET c == call[i]
               path == c.arg[1].path
           IN  IF fail \/ ~Exists(cache, path)
               THEN Return(i, Err(c, "Io")) /\ cache' = cache
               ELSE Return(i, Ok(c, "")) /\ cache' = Delete(cache, path)
    /\ UNCHANGED <<kind, procs, mgr, dir, scratch, tampers>>

\* NodeManager::clean_cache is called.
clean_cache(i) ==
    /\ Begin(i, "node")
    /\ Goto(i, "remove_dir_all", Start(i, "clean_cache"))
    /\ UNCHANGED <<kind, procs, mgr, dir, cache, scratch, faults, tampers>>

\* clean_cache, first third: clear the list, delete the directory.
remove_dir_all(i) ==
    /\ At(i, "node", "remove_dir_all")
    /\ \E fail \in Failing :
        /\ Count(fail)
        /\ LET c == call[i]
           IN  /\ SetLock(i, [mgr[i].lockfile EXCEPT !.node_executables = <<>>])
               /\ IF fail \/ ~dir
                  THEN Return(i, Err(c, "Io")) /\ UNCHANGED <<dir, cache>>
                  ELSE /\ Goto(i, "create_dir_all", c)
                       /\ dir' = FALSE
                       /\ cache' = Empty
    /\ UNCHANGED <<kind, procs, scratch, tampers>>

\* clean_cache, second third: recreate the directory.
create_dir_all(i) ==
    /\ At(i, "node", "create_dir_all")
    /\ \E fail \in Failing :
        /\ Count(fail)
        /\ IF fail
           THEN Return(i, Err(call[i], "Io")) /\ dir' = dir
           ELSE Goto(i, "clean_save", call[i]) /\ dir' = TRUE
    /\ UNCHANGED <<kind, procs, mgr, cache, scratch, tampers>>

\* clean_cache, last third: save the empty lockfile.
clean_save(i) ==
    /\ At(i, "node", "clean_save")
    /\ \E fail \in Failing :
        /\ Count(fail)
        /\ IF fail \/ ~dir
           THEN Return(i, Err(call[i], "Io")) /\ cache' = cache
           ELSE /\ Return(i, Ok(Event(call[i], "save"), ""))
                /\ cache' = NodeManagerLock_save(mgr[i].lockfile)
    /\ UNCHANGED <<kind, procs, mgr, dir, scratch, tampers>>

\* ------------------------------------------------------------- ESBuildLock

ESBuildLock_new(lockfile_path) ==
    [lockfile_path |-> lockfile_path, executable |-> <<>>]

\* Option<ESBuildExecutable>: <<>> is None, <<e>> is Some(e).
ESBuildLock_get(lock) == lock.executable

ESBuildLock_add(lock, esbuild_executable) ==
    [lock EXCEPT !.executable = <<esbuild_executable>>]

ESBuildLock_remove(lock, node_executable) ==
    IF lock.executable = <<node_executable>>
    THEN [lock EXCEPT !.executable = <<>>]
    ELSE lock

ESBuildLock_save(lock) ==
    Write(cache, lock.lockfile_path, SerializeESBuildLock(lock))

\* A load that leaves the path as deserialization made it: lockfile_path is
\* #[serde(skip)], so it is the default, the empty path.
ESBuildLock_load_default_path(lockfile_path) ==
    LET lock == DeserializeESBuildLock(cache[lockfile_path])
    IN  IF ~Exists(cache, lockfile_path)
        THEN [err |-> "Io", lock |-> ESBuildLock_new(lockfile_path)]
        ELSE IF ~lock.ok
        THEN [err |-> "LockfileSerialization", lock |-> ESBuildLock_new(lockfile_path)]
        ELSE [err |-> "",
              lock |-> [lockfile_path |-> "", executable |-> lock.value]]

\* ESBuildLock::load: read the file, deserialize the lock, set its path.
ESBuildLock_load(lockfile_path) ==
    LET lock == DeserializeESBuildLock(cache[lockfile_path])
    IN  IF ~Exists(cache, lockfile_path)
        THEN [err |-> "Io", lock |-> ESBuildLock_new(lockfile_path)]
        ELSE IF ~lock.ok
        THEN [err |-> "LockfileSerialization", lock |-> ESBuildLock_new(lockfile_path)]
        ELSE [err |-> "",
              lock |-> [lockfile_path |-> lockfile_path, executable |-> lock.value]]

\* ----------------------------------------------------------------- ESBuild

ESBuildLockfileAtStart ==
    LET loaded == ESBuildLock_load(LockfilePath)
    IN  IF ~Exists(cache, LockfilePath) \/ loaded.err = "LockfileSerialization"
        THEN [err |-> "", lock |-> ESBuildLock_new(LockfilePath)]
        ELSE loaded

start_esbuild(i) ==
    /\ kind = "esbuild"
    /\ i \in procs
    /\ pc[i] \in {"none", "idle"}
    /\ calls < MaxCalls
    /\ calls' = calls + 1
    /\ Goto(i, "es_new", Start(i, "new"))
    /\ UNCHANGED <<kind, procs, mgr, dir, cache, scratch, faults, tampers, input, output>>

ESBuild_new(i) ==
    /\ At(i, "esbuild", "es_new")
    /\ \E fail \in Failing :
        /\ Count(fail)
        /\ LET c == call[i]
               start == ESBuildLockfileAtStart
           IN  IF fail THEN Return(i, Err(c, "Io")) /\ mgr' = [mgr EXCEPT ![i] = NoManager]
               ELSE IF start.err # ""
               THEN Return(i, Err(c, start.err)) /\ mgr' = [mgr EXCEPT ![i] = NoManager]
               ELSE /\ Return(i, Ok(c, ""))
                    /\ mgr' = [mgr EXCEPT ![i] =
                          [tmp_dir |-> ScratchRoot(i),
                           lockfile |-> start.lock,
                           cache_dir |-> CacheDir]]
    /\ scratch' = [scratch EXCEPT ![i] = Empty]
    /\ UNCHANGED <<kind, procs, dir, cache, tampers>>

\* ESBuild::get_binary up to the choice between the cached blob and a download.
ESBuild_get_binary(i) ==
    /\ Begin(i, "esbuild")
    /\ LET binary == ESBuildLock_get(mgr[i].lockfile)
           c == [Start(i, "get_binary") EXCEPT !.version = ESBUILD_VERSION,
                                               !.arg = binary]
       IN  IF binary # <<>>
           THEN Goto(i, "validate_checksum", Event(c, "hit"))
           ELSE Goto(i, "download_esbuild_archive", Event(c, "miss"))
    /\ UNCHANGED <<kind, procs, mgr, dir, cache, scratch, faults, tampers>>

\* ESBuildExecutable::validate_checksum and the branch on its result.
validate_checksum(i) ==
    /\ At(i, "esbuild", "validate_checksum")
    /\ \E fail \in Failing :
        /\ Count(fail)
        /\ LET c == call[i]
               archive == c.arg[1]
           IN  IF fail \/ ~Exists(cache, archive.path)
               THEN Return(i, Err(c, "Io"))
               ELSE IF Sha256(cache[archive.path]) = archive.checksum
               THEN Goto(i, "es_unpack_archive", Event(c, "valid"))
               ELSE Goto(i, "remove_stale", Event(c, "invalid"))
    /\ UNCHANGED <<kind, procs, mgr, dir, cache, scratch, tampers>>

\* ESBuild::remove: delete the blob, then drop the entry from the lockfile.
ESBuild_remove_body(i, c, esbuild_archive, next) ==
    \E fail \in Failing :
        /\ Count(fail)
        /\ IF fail \/ ~Exists(cache, esbuild_archive.path)
           THEN Return(i, Err(c, "Io")) /\ UNCHANGED <<cache, mgr>>
           ELSE /\ cache' = Delete(cache, esbuild_archive.path)
                /\ SetLock(i, ESBuildLock_remove(mgr[i].lockfile, esbuild_archive))
                /\ IF next = "idle"
                   THEN Return(i, Ok(Event(c, "remove"), esbuild_archive.path))
                   ELSE Goto(i, next, Event(c, "remove"))

\* self.remove(&archive) inside get_binary, followed by the download.
remove_stale(i) ==
    /\ At(i, "esbuild", "remove_stale")
    /\ ESBuild_remove_body(i, call[i], call[i].arg[1], "download_esbuild_archive")
    /\ UNCHANGED <<kind, procs, dir, scratch, tampers>>

\* ESBuild::remove called from outside.
ESBuild_remove(i, esbuild_archive) ==
    /\ Begin(i, "esbuild")
    /\ Goto(i, "es_remove",
            [Start(i, "remove") EXCEPT !.arg = <<esbuild_archive>>,
                                       !.version = esbuild_archive.version])
    /\ UNCHANGED <<kind, procs, mgr, dir, cache, scratch, faults, tampers>>

ESBuild_remove_file(i) ==
    /\ At(i, "esbuild", "es_remove")
    /\ ESBuild_remove_body(i, call[i], call[i].arg[1], "idle")
    /\ UNCHANGED <<kind, procs, dir, scratch, tampers>>

ESBuildExtractedPath(i, version) ==
    Join(ScratchRoot(i), "esbuild-v" \o version \o ".exe")

ESBuild_unpack_archive(i) ==
    /\ At(i, "esbuild", "es_unpack_archive")
    /\ \E fail \in Failing :
        /\ Count(fail)
        /\ LET c == call[i]
               esbuild_archive == c.arg[1]
               extracted_binary_path == ESBuildExtractedPath(i, esbuild_archive.version)
           IN  IF fail \/ ~Exists(cache, esbuild_archive.path)
               THEN Return(i, Err(c, "Io")) /\ scratch' = scratch
               ELSE IF ~ZstdOk(cache[esbuild_archive.path])
               THEN /\ Return(i, Err(c, "Io"))
                    /\ scratch' = [scratch EXCEPT ![i] =
                           Write(@, extracted_binary_path, File(<<>>))]
               ELSE /\ Goto(i, "es_make_executable",
                            [Event(c, "decompress") EXCEPT
                                !.executable = extracted_binary_path])
                    /\ scratch' = [scratch EXCEPT ![i] =
                           Write(@, extracted_binary_path,
                                 File(ZstdDecode(cache[esbuild_archive.path])))]
    /\ UNCHANGED <<kind, procs, mgr, dir, cache, tampers>>

ESBuild_make_executable(i) ==
    /\ At(i, "esbuild", "es_make_executable")
    /\ \E fail \in Failing :
        /\ Count(fail)
        /\ LET c == call[i]
           IN  IF fail \/ ~Exists(scratch[i], c.executable)
               THEN Return(i, Err(c, "Io")) /\ scratch' = scratch
               ELSE /\ Return(i, Binary(i, c, c.executable))
                    /\ scratch' = [scratch EXCEPT ![i][c.executable].mode = "0o755"]
    /\ UNCHANGED <<kind, procs, mgr, dir, cache, tampers>>

\* ------------------------------------------------------- ESBuild::download

download_esbuild_archive(i) ==
    /\ At(i, "esbuild", "download_esbuild_archive")
    /\ LET c == Event(call[i], "archive")
           published == ESBuildArchive(c.version)
           file_name == Join(ScratchRoot(i), "esbuild.tar.gz")
       IN  \E o \in Outcomes({"Download", "Io", "corrupt"}) :
           \E at \in IF o = "corrupt" THEN Places(published) ELSE {1} :
            /\ CountOutcome(o)
            /\ IF o \in {"Download", "Io"}
               THEN Return(i, Err(c, o)) /\ scratch' = scratch
               ELSE /\ Goto(i, "es_unpack_downloaded", [c EXCEPT !.archive = file_name])
                    /\ scratch' = [scratch EXCEPT ![i] =
                           Write(@, file_name, File(Received(published, o, at)))]
    /\ UNCHANGED <<kind, procs, mgr, dir, cache, tampers>>

ESBuildExecutablePath(i) ==
    Join(ScratchRoot(i),
         IF get_host_os = "Windows" THEN "package/bin/esbuild.exe"
         ELSE "package/bin/esbuild")

unpack_downloaded_esbuild_archive(i) ==
    /\ At(i, "esbuild", "es_unpack_downloaded")
    /\ \E fail \in Failing :
        /\ Count(fail)
        /\ LET c == Event(call[i], "unpack")
               bytes == scratch[i][c.archive].bytes
           IN  IF fail \/ ~ArchiveOk(GzMagic, 0, bytes)
               THEN Return(i, Err(c, "Io")) /\ scratch' = scratch
               ELSE /\ Goto(i, "es_repack_create",
                            [c EXCEPT !.executable = ESBuildExecutablePath(i)])
                    /\ scratch' = [scratch EXCEPT ![i] =
                           Write(@, Join(ScratchRoot(i), "package/bin/esbuild"),
                                 [bytes |-> ArchiveBinary(GzMagic, 0, bytes),
                                  mode |-> "0o755"])]
    /\ UNCHANGED <<kind, procs, mgr, dir, cache, tampers>>

ESBuildArchivePath(version) ==
    Join(CacheDir, "esbuild-v" \o version \o ".zst")

ESBuild_repack_create(i) ==
    /\ At(i, "esbuild", "es_repack_create")
    /\ \E fail \in Failing :
        /\ Count(fail)
        /\ LET c == Event(call[i], "repack")
               archive_path == ESBuildArchivePath(c.version)
           IN  IF fail \/ ~dir
               THEN Return(i, Err(c, "Io")) /\ cache' = cache
               ELSE /\ Goto(i, "es_repack_write", [c EXCEPT !.blob = archive_path])
                    /\ cache' = Write(cache, archive_path, <<>>)
    /\ UNCHANGED <<kind, procs, mgr, dir, scratch, tampers>>

ESBuild_repack_write(i) ==
    /\ At(i, "esbuild", "es_repack_write")
    /\ \E fail \in Failing :
        /\ Count(fail)
        /\ LET c == call[i]
           IN  IF fail \/ ~Exists(scratch[i], c.executable)
               THEN Return(i, Err(c, "Io")) /\ cache' = cache
               ELSE /\ Goto(i, "es_checksum", c)
                    /\ cache' = Write(cache, c.blob,
                                      ZstdEncode(scratch[i][c.executable].bytes))
    /\ UNCHANGED <<kind, procs, mgr, dir, scratch, tampers>>

\* calculate_checksum of the new blob, lockfile.add, and download's Ok.
ESBuild_checksum_and_add(i) ==
    /\ At(i, "esbuild", "es_checksum")
    /\ \E fail \in Failing :
        /\ Count(fail)
        /\ LET c == call[i]
               archive_checksum == Sha256(cache[c.blob])
           IN  IF fail \/ ~Exists(cache, c.blob)
               THEN Return(i, Err(c, "Io")) /\ mgr' = mgr
               ELSE /\ Goto(i, "es_make_executable",
                            Event(Event(c, "checksum"), "add"))
                    /\ SetLock(i, ESBuildLock_add(mgr[i].lockfile,
                                         [checksum |-> archive_checksum,
                                          version |-> c.version,
                                          path |-> c.blob]))
    /\ UNCHANGED <<kind, procs, dir, cache, scratch, tampers>>

\* ---------------------------------------------------- ESBuild::clean_cache

ESBuild_clean_cache(i) ==
    /\ Begin(i, "esbuild")
    /\ Goto(i, "es_remove_dir_all", Start(i, "clean_cache"))
    /\ UNCHANGED <<kind, procs, mgr, dir, cache, scratch, faults, tampers>>

ESBuild_remove_dir_all(i) ==
    /\ At(i, "esbuild", "es_remove_dir_all")
    /\ \E fail \in Failing :
        /\ Count(fail)
        /\ LET c == call[i]
           IN  /\ SetLock(i, [mgr[i].lockfile EXCEPT !.executable = <<>>])
               /\ IF fail \/ ~dir
                  THEN Return(i, Err(c, "Io")) /\ UNCHANGED <<dir, cache>>
                  ELSE /\ Goto(i, "es_create_dir_all", c)
                       /\ dir' = FALSE
                       /\ cache' = Empty
    /\ UNCHANGED <<kind, procs, scratch, tampers>>

ESBuild_create_dir_all(i) ==
    /\ At(i, "esbuild", "es_create_dir_all")
    /\ \E fail \in Failing :
        /\ Count(fail)
        /\ IF fail
           THEN Return(i, Err(call[i], "Io")) /\ dir' = dir
           ELSE Goto(i, "es_clean_save", call[i]) /\ dir' = TRUE
    /\ UNCHANGED <<kind, procs, mgr, cache, scratch, tampers>>

ESBuild_clean_save(i) ==
    /\ At(i, "esbuild", "es_clean_save")
    /\ \E fail \in Failing :
        /\ Count(fail)
        /\ IF fail \/ ~dir
           THEN Return(i, Err(call[i], "Io")) /\ cache' = cache
           ELSE /\ Return(i, Ok(Event(call[i], "save"), ""))
                /\ cache' = ESBuildLock_save(mgr[i].lockfile)
    /\ UNCHANGED <<kind, procs, mgr, dir, scratch, tampers>>

ESBuildNext ==
    \E i \in Proc :
        \/ start_esbuild(i)
        \/ ESBuild_new(i)
        \/ ESBuild_get_binary(i)
        \/ validate_checksum(i)
        \/ remove_stale(i)
        \/ /\ kind = "esbuild"
           /\ pc[i] = "idle"
           /\ mgr[i].lockfile.executable # <<>>
           /\ ESBuild_remove(i, mgr[i].lockfile.executable[1])
        \/ ESBuild_unpack_archive(i)
        \/ ESBuild_make_executable(i)
        \/ download_esbuild_archive(i)
        \/ unpack_downloaded_esbuild_archive(i)
        \/ ESBuild_repack_create(i)
        \/ ESBuild_repack_write(i)
        \/ ESBuild_checksum_and_add(i)
        \/ ESBuild_remove_file(i)
        \/ ESBuild_clean_cache(i)
        \/ ESBuild_remove_dir_all(i)
        \/ ESBuild_create_dir_all(i)
        \/ ESBuild_clean_save(i)

\* ------------------------------------------------------------- environment

\* Between calls the cache directory can be changed from outside: a byte of
\* a blob is altered, a blob is deleted, the lockfile is overwritten.
Blobs == DOMAIN cache \ {LockfilePath}

Tamper ==
    /\ AllIdle
    /\ tampers < MaxTamper
    /\ tampers' = tampers + 1
    /\ UNCHANGED <<kind, procs, mgr, pc, call, ret, dir, scratch, calls, faults,
                   input, output>>

AlterBlob ==
    /\ Tamper
    /\ \E path \in Blobs : \E at \in Places(cache[path]) :
        cache' = Write(cache, path, Flip(cache[path], at))

DeleteBlob ==
    /\ Tamper
    /\ \E path \in Blobs : cache' = Delete(cache, path)

OverwriteLockfile ==
    /\ Tamper
    /\ dir
    /\ cache' = Write(cache, LockfilePath, Garbage)

\* -------------------------------------------------------------------- Next

NodeNext ==
    \E i \in Proc :
        \/ \E target \in Targets : start_node(i, target)
        \/ NodeManager_new(i)
        \/ \E version \in Versions : get_host_binary(i, version)
        \/ \E version \in Versions : get_target_binary(i, version)
        \/ unpack_archive(i)
        \/ make_executable(i)
        \/ download_checksums(i)
        \/ download_node_archive(i)
        \/ calculate_checksum(i)
        \/ verify(i)
        \/ unpack_downloaded_node_archive(i)
        \/ repack_create(i)
        \/ repack_write(i)
        \/ checksum_and_add(i)
        \/ save_after_download(i)
        \/ /\ kind = "node"
           /\ pc[i] = "idle"
           /\ \E n \in 1..Len(mgr[i].lockfile.node_executables) :
                  remove(i, mgr[i].lockfile.node_executables[n])
        \/ lockfile_remove(i)
        \/ remove_file(i)
        \/ clean_cache(i)
        \/ remove_dir_all(i)
        \/ create_dir_all(i)
        \/ clean_save(i)

Next == NodeNext \/ ESBuildNext \/ AlterBlob \/ DeleteBlob \/ OverwriteLockfile

Spec == Init /\ [][Next]_vars

\* ------------------------------------------------- the parser on its own

\* A second specification: parse_checksum_file applied to each manifest text
\* of at most MaxLines lines drawn from Lines.
MaxLines == 2

\* A line written to the entry grammar from its parts.
EntryLine(e) ==
    HexEncode(Digest(e.digest)) \o NodePrefix \o e.major \o <<".">> \o e.minor
        \o <<".">> \o e.patch \o <<"-">> \o e.os \o <<"-">> \o e.arch \o e.ext

\* The parts of well-formed lines, as in the fixture of parse_sumfile.
LinuxX64 ==
    [digest |-> <<31, 139, 1>>, major |-> <<"2", "2">>, minor |-> <<"3">>, patch |-> <<"0">>,
       os |-> <<"l", "i", "n", "u", "x">>, arch |-> <<"x", "6", "4">>, ext |-> <<".", "t", "a", "r", ".", "g", "z">>]
WinX86 ==
    [digest |-> <<80, 75, 2>>, major |-> <<"2", "2">>, minor |-> <<"3">>, patch |-> <<"0">>,
       os |-> <<"w", "i", "n">>, arch |-> <<"x", "8", "6">>, ext |-> <<".", "z", "i", "p">>]
DarwinArm64 ==
    [digest |-> <<31, 139, 3>>, major |-> <<"1", "8">>, minor |-> <<"2", "0">>, patch |-> <<"4">>,
       os |-> <<"d", "a", "r", "w", "i", "n">>, arch |-> <<"a", "r", "m", "6", "4">>, ext |-> <<".", "t", "a", "r", ".", "g", "z">>]

\* The platform of LinuxX64 listed once more, as a zip with its own digest.
LinuxX64Zip ==
    [LinuxX64 EXCEPT !.digest = <<80, 75, 4>>, !.ext = <<".", "z", "i", "p">>]

GrammarLines == {EntryLine(e) : e \in {LinuxX64, WinX86, DarwinArm64, LinuxX64Zip}}

\* Lines that are not entries: an installer, a single file's sum, a line
\* shorter than a digest.
SkippedLines ==
    {HexEncode(Digest(<<4>>)) \o <<" ", " ", "n", "o", "d", "e", "-", "v", "2", "2", ".", "3", ".", "0", "-", "a", "r", "m", "6", "4", ".", "m", "s", "i">>,
     HexEncode(Digest(<<5>>)) \o <<" ", " ", "w", "i", "n", "-", "x", "6", "4", "/", "n", "o", "d", "e", ".", "e", "x", "e">>,
     <<"#", " ", "S", "H", "A", "S", "U", "M", "S", "2", "5", "6">>}

\* A well-formed line with text after the extension.
TrailingLine == EntryLine(LinuxX64) \o <<".", "a", "s", "c">>

\* A line of 64 or more characters whose first 64 are not all hexadecimal.
NotHexLine == [n \in 1..ChecksumLen |-> "-"] \o <<" ", " ", "n", "o", "d", "e", "-", "v", "2", "2", ".", "3", ".", "0", "-", "l", "i", "n", "u", "x", "-", "x", "6", "4", ".", "t", "a", "r", ".", "g", "z">>

\* Lines whose version has an underscore, a leading zero, a number above
\* u64::MAX.
UnderscoreLine == EntryLine([LinuxX64 EXCEPT !.minor = <<"3", "_">>])
LeadingZeroLine == EntryLine([LinuxX64 EXCEPT !.minor = <<"0", "3">>])
OversizedLine == EntryLine([LinuxX64 EXCEPT !.major = <<"1", "8", "4", "4", "6", "7", "4", "4", "0", "7", "3", "7", "0", "9", "5", "5", "1", "6", "1", "6">>])

Lines ==
    GrammarLines \cup SkippedLines
        \cup {TrailingLine, NotHexLine, UnderscoreLine, LeadingZeroLine, OversizedLine}

Manifests == UNION {[1..n -> Lines] : n \in 0..MaxLines}

ParserInit ==
    /\ kind = "node"
    /\ procs = {1}
    /\ mgr = [i \in Proc |-> NoManager]
    /\ pc = [i \in Proc |-> "none"]
    /\ call = [i \in Proc |-> NoCall]
    /\ ret = [i \in Proc |-> NoReturn]
    /\ dir = TRUE
    /\ cache = Empty
    /\ scratch = [i \in Proc |-> Empty]
    /\ calls = 0
    /\ faults = 0
    /\ tampers = 0
    /\ input \in Manifests
    /\ output = NotParsed

\* A call of parse_checksum_file on the text.
Parse ==
    /\ output = NotParsed
    /\ output' = parse_checksum_file(input)
    /\ UNCHANGED <<kind, procs, mgr, pc, call, ret, dir, cache, scratch, calls,
                   faults, tampers, input>>

\* The extension of the archive's URL in download_node_archive.
ArchiveExt(os) ==
    IF os = "Windows" THEN <<".", "z", "i", "p">>
    ELSE <<".", "t", "a", "r", ".", "g", "z">>

\* The platforms a download asks the manifest for.
Requests ==
    {[version |-> "22.3.0", os |-> "Linux", arch |-> "X64"],
     [version |-> "22.3.0", os |-> "Windows", arch |-> "X86"],
     [version |-> "18.20.4", os |-> "MacOS", arch |-> "Arm64"]}

\* The head of NodeManager::download after the manifest is parsed: the
\* entry of the requested platform is searched, and the archive's URL is
\* formed.
Select ==
    /\ output # NotParsed
    /\ "found" \notin DOMAIN output
    /\ \E meta \in Requests :
        output' = [result |-> output.result,
                   entries |-> output.entries,
                   meta |-> meta,
                   found |-> FindChecksum(output.entries,
                                          meta.version, meta.os, meta.arch),
                   ext |-> ArchiveExt(meta.os)]
    /\ UNCHANGED <<kind, procs, mgr, pc, call, ret, dir, cache, scratch, calls,
                   faults, tampers, input>>

ParserNext == Parse \/ Select

ParserSpec == ParserInit /\ [][ParserNext]_vars

\* ------------------------------------------------ the lockfile on its own

\* A third specification: a store is saved and then loaded from the same
\* path.  The stores are every list of at most MaxEntries entries drawn from
\* StoredEntries (for NodeManagerLock) and None or Some entry (for
\* ESBuildLock), each at one of two backing paths.
MaxEntries == 3

\* Entries as in create_save_load_lockfile, one more for another version, and
\* one with the key of the first and another checksum.
StoredEntries ==
    {[meta |-> [version |-> VersionOf(0), arch |-> "Arm64", os |-> "MacOS"],
      checksum |-> "sha256:b6", path |-> "test"],
     [meta |-> [version |-> VersionOf(0), arch |-> "X86", os |-> "Windows"],
      checksum |-> "sha256:a5", path |-> "test"],
     [meta |-> [version |-> VersionOf(MaxPatch), arch |-> "X64", os |-> "Linux"],
      checksum |-> "sha256:b6",
      path |-> NodeArchivePath(VersionOf(MaxPatch), "Linux", "X64")],
     [meta |-> [version |-> VersionOf(0), arch |-> "Arm64", os |-> "MacOS"],
      checksum |-> "sha256:00", path |-> "other"]}

StoredESBuildEntries ==
    {[checksum |-> "sha256:00", version |-> VersionOf(0), path |-> "/path/to/esbuild"],
     [checksum |-> "sha256:b6", version |-> ESBUILD_VERSION,
      path |-> ESBuildArchivePath(ESBUILD_VERSION)]}

LockPaths == {LockfilePath, Join(CacheDir, "copy.lockb")}

Stores(k) ==
    IF k = "node"
    THEN {NodeManagerLock_new(es, p) :
             es \in UNION {[1..n -> StoredEntries] : n \in 0..MaxEntries},
             p \in LockPaths}
    ELSE {[lockfile_path |-> p, executable |-> e] :
             e \in {<<>>} \cup {<<x>> : x \in StoredESBuildEntries},
             p \in LockPaths}

LockInit ==
    /\ kind \in {"node", "esbuild"}
    /\ procs = {1, 2}
    /\ \E lock \in Stores(kind) :
           mgr = [i \in Proc |-> IF i = 1 THEN [lockfile |-> lock] ELSE NoManager]
    /\ pc = [i \in Proc |-> IF i = 1 THEN "idle" ELSE "none"]
    /\ call = [i \in Proc |-> NoCall]
    /\ ret = [i \in Proc |-> NoReturn]
    /\ dir = TRUE
    /\ cache = Empty
    /\ scratch = [i \in Proc |-> Empty]
    /\ calls = 0
    /\ faults = 0
    /\ tampers = 0
    /\ input = <<>>
    /\ output = NotParsed

\* save() on the store held by process 1.
lock_save ==
    /\ pc[1] = "idle"
    /\ ret[1].op = ""
    /\ \E fail \in Failing :
        /\ Count(fail)
        /\ LET c == Start(1, "save")
               lock == mgr[1].lockfile
           IN  IF fail
               THEN ret' = [ret EXCEPT ![1] = Err(c, "Io")] /\ cache' = cache
               ELSE /\ ret' = [ret EXCEPT ![1] = Ok(c, lock.lockfile_path)]
                    /\ cache' = IF kind = "node" THEN NodeManagerLock_save(lock)
                                ELSE ESBuildLock_save(lock)
    /\ UNCHANGED <<kind, procs, mgr, pc, call, dir, scratch, calls, tampers,
                   input, output>>

\* load(path), by process 2, of the path process 1 saved to.
lock_load ==
    /\ ret[1].op = "save"
    /\ pc[2] = "none"
    /\ ret[2].op = ""
    /\ \E fail \in Failing :
        /\ Count(fail)
        /\ LET c == Start(2, "load")
               lockfile_path == mgr[1].lockfile.lockfile_path
               loaded == IF kind = "node" THEN NodeManagerLock_load(lockfile_path)
                         ELSE ESBuildLock_load(lockfile_path)
           IN  IF fail \/ loaded.err # ""
               THEN /\ ret' = [ret EXCEPT ![2] =
                                  Err(c, IF fail THEN "Io" ELSE loaded.err)]
                    /\ UNCHANGED <<mgr, pc>>
               ELSE /\ ret' = [ret EXCEPT ![2] = Ok(c, lockfile_path)]
                    /\ mgr' = [mgr EXCEPT ![2] = [lockfile |-> loaded.lock]]
                    /\ pc' = [pc EXCEPT ![2] = "idle"]
    /\ UNCHANGED <<kind, procs, call, dir, cache, scratch, calls, tampers,
                   input, output>>

LockNext == lock_save \/ lock_load

LockSpec == LockInit /\ [][LockNext]_vars

\* -------------------------------------------------- platforms on their own

\* A fourth specification: a host (the names std::env::consts gives for it)
\* and a target (an Os and an Arch) are drawn; the host is detected with
\* Os::default and Arch::default; the target is rendered with Display and
\* the rendered tokens are parsed with parse_os and parse_arch.
OSNames == {"linux", "macos", "windows", "freebsd", "android", "ios"}
ARCHNames == {"x86", "x86_64", "arm", "aarch64", "riscv64", "powerpc64"}

\* The characters of a string.
Chars(str) == [n \in 1..Len(str) |-> SubSeq(str, n, n)]

PlatformInit ==
    /\ kind = "node"
    /\ procs = {1}
    /\ mgr = [i \in Proc |-> NoManager]
    /\ pc = [i \in Proc |-> "none"]
    /\ call = [i \in Proc |-> NoCall]
    /\ ret = [i \in Proc |-> NoReturn]
    /\ dir = TRUE
    /\ cache = Empty
    /\ scratch = [i \in Proc |-> Empty]
    /\ calls = 0
    /\ faults = 0
    /\ tampers = 0
    /\ input \in [OS : OSNames, ARCH : ARCHNames, os : Os, arch : Arch]
    /\ output = NotParsed

\* Os::default() and Arch::default() on the host: a target, or a panic.
Default ==
    /\ output = NotParsed
    /\ LET os == Os_default(input.OS)
           arch == Arch_default(input.ARCH)
       IN  output' = IF os = "panic" \/ arch = "panic"
                     THEN [result |-> "panic", entries |-> <<>>]
                     ELSE [result |-> "Ok", entries |-> <<os, arch>>]
    /\ UNCHANGED <<kind, procs, mgr, pc, call, ret, dir, cache, scratch, calls,
                   faults, tampers, input>>

\* Display of the target's os and arch.
Display ==
    /\ output = NotParsed
    /\ output' = [result |-> "rendered",
                  entries |-> <<Chars(OsDisplay(input.os)),
                                Chars(ArchDisplay(input.arch))>>]
    /\ UNCHANGED <<kind, procs, mgr, pc, call, ret, dir, cache, scratch, calls,
                   faults, tampers, input>>

\* parse_os and parse_arch on the rendered tokens.
ParseTokens ==
    /\ output.result = "rendered"
    /\ output' = [result |-> "parsed",
                  entries |-> output.entries \o
                      <<parse_os(output.entries[1]), parse_arch(output.entries[2])>>]
    /\ UNCHANGED <<kind, procs, mgr, pc, call, ret, dir, cache, scratch, calls,
                   faults, tampers, input>>

\* parse_checksum_file_entry on a manifest line whose architecture token is
\* one of the tokens parse_arch lists.
ParseEntry ==
    /\ output = NotParsed
    /\ \E n \in DOMAIN ArchTags : \E ext \in {ExtTags[m] : m \in DOMAIN ExtTags} :
        output' = [result |-> "entry",
                   entries |-> <<ArchTags[n],
                                 parse_checksum_file_entry(
                                     EntryLine([LinuxX64 EXCEPT !.arch = ArchTags[n],
                                                                !.ext = ext]))>>]
    /\ UNCHANGED <<kind, procs, mgr, pc, call, ret, dir, cache, scratch, calls,
                   faults, tampers, input>>

PlatformNext == Default \/ Display \/ ParseTokens \/ ParseEntry

PlatformSpec == PlatformInit /\ [][PlatformNext]_vars

\* ------------------------------------------------- two processes at once

\* A fifth specification: two invocations of the tool run at the same time
\* on one cache directory, each with a NodeManager of its own.  Their steps
\* interleave in every order.  No failure is injected and nothing is changed
\* from outside: what goes wrong here is the work of the two processes.
\* Both managers have been constructed on the empty cache directory by the
\* first two public calls.
ConcInit ==
    /\ kind = "node"
    /\ procs = {1, 2}
    /\ \E target \in Targets :
        mgr = [i \in Proc |->
                  [host_os |-> get_host_os, host_arch |-> get_host_arch,
                   target_os |-> target[1], target_arch |-> target[2],
                   node_cache_dir |-> CacheDir,
                   lockfile |-> NodeManagerLock_new(<<>>, LockfilePath),
                   tmp_dir |-> ScratchRoot(i)]]
    /\ pc = [i \in Proc |-> "idle"]
    /\ call = [i \in Proc |-> NoCall]
    /\ ret = [i \in Proc |-> NoReturn]
    /\ dir = TRUE
    /\ cache = Empty
    /\ scratch = [i \in Proc |-> Empty]
    /\ calls = 2
    /\ faults = MaxFaults
    /\ tampers = MaxTamper
    /\ input = <<>>
    /\ output = NotParsed

ConcNext == NodeNext

ConcSpec == ConcInit /\ [][ConcNext]_vars


\* ================================================================== properties

Happened(events, e) == \E n \in DOMAIN events : events[n] = e
Position(events, e) == CHOOSE n \in DOMAIN events : events[n] = e
GetOps == {"get_host_binary", "get_target_binary", "get_binary"}

\* ------------------------------------------- the bundler cache of a release

\* A sixth specification: ESBuild on a cache directory that a release of the
\* tool left behind, with a lockfile that lists the bundler under the
\* version that release pinned (this one's or an earlier one's) and the blob
\* of that version, its checksum as recorded.
LeftBehind(version) ==
    LET path == ESBuildArchivePath(version)
        blob == ZstdEncode(ESBuildBinary(version))
        lock == [ESBuildLock_new(LockfilePath) EXCEPT
                    !.executable = <<[checksum |-> Sha256(blob),
                                      version |-> version,
                                      path |-> path]>>]
    IN  Write(Write(Empty, path, blob), LockfilePath, SerializeESBuildLock(lock))

PinInit ==
    /\ kind = "esbuild"
    /\ procs = {1}
    /\ mgr = [i \in Proc |-> NoManager]
    /\ pc = [i \in Proc |-> "none"]
    /\ call = [i \in Proc |-> NoCall]
    /\ ret = [i \in Proc |-> NoReturn]
    /\ dir = TRUE
    /\ cache \in {LeftBehind(version) :
                      version \in {ESBUILD_VERSION, EarlierESBuildVersion}}
    /\ scratch = [i \in Proc |-> Empty]
    /\ calls = 0
    /\ faults = 0
    /\ tampers = 0
    /\ input = <<>>
    /\ output = NotParsed

PinNext == ESBuildNext \/ AlterBlob \/ DeleteBlob \/ OverwriteLockfile

PinSpec == PinInit /\ [][PinNext]_vars

\* ---------------------------------------------------------------------- C1

\* C1: in the Node download, when the SHA-256 computed over the downloaded
\* archive differs from the digest the manifest gives for the requested
\* platform, the call returns ChecksumMismatch; the call has unpacked
\* nothing, repacked nothing and written no blob, and neither the lockfile
\* in memory nor the one on disk has gained an entry: the cache directory and
\* the in-memory list are as they were when the call started.
C1_ChecksumMismatchAborts ==
    [][\A i \in Proc :
          (/\ kind = "node"
           /\ pc[i] = "verify"
           /\ pc'[i] # "verify"
           /\ call[i].actual # call[i].expected)
          => /\ Returns(i)
             /\ ~ret'[i].ok
             /\ ret'[i].err = "ChecksumMismatch"
             /\ \A e \in {"unpack", "repack", "checksum", "add", "save"} :
                    ~Happened(ret'[i].events, e)
             /\ cache' = call[i].before.cache
             /\ mgr'[i].lockfile = call[i].before.lock]_vars

\* A download whose archive arrived altered has been refused.
C1_Witness ==
    \E i \in Proc :
        /\ kind = "node"
        /\ ret[i].op \in GetOps
        /\ ret[i].err = "ChecksumMismatch"
        /\ Happened(ret[i].events, "archive")

\* ---------------------------------------------------------------------- C2

\* C2: for the runtime cache and for the bundler cache alike, an entry is
\* added to the lockfile only after (1) the downloaded archive's checksum has
\* been compared with the upstream-published value and found equal, and then
\* (2) the checksum of the repacked blob has been computed: in every call
\* that has added an entry, the comparison came before the blob's checksum
\* and the blob's checksum before the addition.
C2_AddOnlyAfterBothChecks ==
    \A i \in Proc :
        Happened(call[i].events, "add")
        => /\ Happened(call[i].events, "authentic")
           /\ Happened(call[i].events, "checksum")
           /\ Position(call[i].events, "authentic") < Position(call[i].events, "checksum")
           /\ Position(call[i].events, "checksum") < Position(call[i].events, "add")

\* ---------------------------------------------------------------------- C3

\* C3: on every cache hit, in get_host_binary, get_target_binary and
\* ESBuild::get_binary, the blob's checksum is recomputed and compared with
\* the recorded one before anything is decompressed: a call that found its
\* entry in the lockfile and has decompressed the blob did so from a blob
\* whose SHA-256 is the entry's checksum.
C3_HitValidatedBeforeDecompress ==
    \A i \in Proc :
        (/\ pc[i] \in {"make_executable", "es_make_executable"}
         /\ Happened(call[i].events, "hit")
         /\ ~Happened(call[i].events, "add")
         /\ Happened(call[i].events, "decompress"))
        => /\ Exists(cache, call[i].arg[1].path)
           /\ Sha256(cache[call[i].arg[1].path]) = call[i].arg[1].checksum


\* ------------------------------------------------------ the store, either kind

\* The entries of a lockfile, in memory and as the file on disk gives them.
Entries(lock) ==
    IF kind = "node" THEN lock.node_executables ELSE lock.executable

KeyOf(e) ==
    IF kind = "node" THEN <<e.meta.version, e.meta.os, e.meta.arch>>
    ELSE <<e.version>>

Persisted(fs) ==
    IF kind = "node" THEN DeserializeNodeLock(fs[LockfilePath])
    ELSE DeserializeESBuildLock(fs[LockfilePath])

PersistedEntries(fs) ==
    IF Exists(fs, LockfilePath) /\ Persisted(fs).ok THEN Persisted(fs).value
    ELSE <<>>

WithKey(es, k) == SelectSeq(es, LAMBDA e : KeyOf(e) = k)
Others(es, k) == SelectSeq(es, LAMBDA e : KeyOf(e) # k)
BlobPaths(fs) == DOMAIN fs \ {LockfilePath}

\* ---------------------------------------------------------------------- C4

\* C4: from a store that holds an entry for a key whose blob has been
\* altered so that its checksum no longer matches, a get-binary call for
\* that key, with upstream reachable and authentic (nothing fails during the
\* call), returns success and leaves exactly one entry for the key, whose
\* checksum is the checksum of the blob on disk.
C4_AlteredBlobHeals ==
    [][\A i \in Proc :
          (/\ Returns(i)
           /\ call[i].op \in GetOps
           /\ call[i].arg # <<>>
           /\ Exists(call[i].before.cache, call[i].arg[1].path)
           /\ Sha256(call[i].before.cache[call[i].arg[1].path])
                  # call[i].arg[1].checksum
           /\ faults' = call[i].before.faults)
          => /\ ret'[i].ok
             /\ LET mine == WithKey(Entries(mgr'[i].lockfile), KeyOf(call[i].arg[1]))
                IN  /\ Len(mine) = 1
                    /\ Exists(cache', mine[1].path)
                    /\ Sha256(cache'[mine[1].path]) = mine[1].checksum]_vars

\* ---------------------------------------------------------------------- C5

\* C5: after any sequence of get-binary, remove and clean_cache calls on a
\* manager, its lockfile store holds at most one entry per key: no two
\* entries of the in-memory list, and no two entries of the list the file on
\* disk deserializes to, have the same (version, os, arch).
C5_AtMostOneEntryPerKey ==
    \A i \in Proc :
        mgr[i] # NoManager
        => LET es == Entries(mgr[i].lockfile)
               on_disk == PersistedEntries(cache)
           IN  /\ \A m, n \in DOMAIN es :
                      m # n => KeyOf(es[m]) # KeyOf(es[n])
               /\ \A m, n \in DOMAIN on_disk :
                      m # n => KeyOf(on_disk[m]) # KeyOf(on_disk[n])

\* A manager that has fetched the same key twice, the second time from the
\* cache, and holds two entries, for two keys.
C5_Witness ==
    \E i \in Proc :
        /\ kind = "node"
        /\ pc[i] = "idle"
        /\ ret[i].op \in GetOps
        /\ ret[i].ok
        /\ Happened(ret[i].events, "hit")
        /\ Len(Entries(mgr[i].lockfile)) = 2

\* ---------------------------------------------------------------------- C6

\* C6: whenever get-binary, remove or clean_cache returns success having
\* changed the in-memory lockfile, the lockfile file exists and deserializes
\* to exactly the in-memory list, for the runtime cache and for the bundler
\* cache.
C6_SavedAfterEveryMutation ==
    [][\A i \in Proc :
          (/\ Returns(i)
           /\ call[i].op \in GetOps \cup {"remove", "clean_cache"}
           /\ ret'[i].ok
           /\ mgr'[i].lockfile # call[i].before.lock)
          => /\ Exists(cache', LockfilePath)
             /\ Persisted(cache').ok
             /\ Persisted(cache').value = Entries(mgr'[i].lockfile)]_vars

\* ---------------------------------------------------------------------- C7

\* C7: when clean_cache returns success, the in-memory list is empty, no
\* blob remains in the cache directory, the cache directory exists, and the
\* lockfile exists and deserializes to the empty store.
C7_CleanCacheLeavesEmptyCache ==
    [][\A i \in Proc :
          (Returns(i) /\ call[i].op = "clean_cache" /\ ret'[i].ok)
          => /\ Entries(mgr'[i].lockfile) = <<>>
             /\ BlobPaths(cache') = {}
             /\ dir'
             /\ Exists(cache', LockfilePath)
             /\ Persisted(cache').ok
             /\ Persisted(cache').value = <<>>]_vars

\* clean_cache has succeeded on a cache that held an entry and its blob.
C7_Witness ==
    \E i \in Proc :
        /\ pc[i] = "idle"
        /\ ret[i].op = "clean_cache"
        /\ ret[i].ok
        /\ Entries(ret[i].before.lock) # <<>>
        /\ BlobPaths(ret[i].before.cache) # {}
        /\ BlobPaths(cache) = {}

\* ---------------------------------------------------------------------- C8

\* C8: construction never fails because of what the lockfile holds.  With no
\* lockfile the store is empty; with a lockfile that does not deserialize
\* construction succeeds with an empty store; the only error construction
\* returns is the I/O error of reading the lockfile or of creating the
\* scratch directory.
C8_ConstructionToleratesLockfile ==
    [][\A i \in Proc :
          (Returns(i) /\ call[i].op = "new")
          => /\ faults' = faults => ret'[i].ok
             /\ ~ret'[i].ok => ret'[i].err = "Io"
             /\ (ret'[i].ok /\ ~Exists(cache, LockfilePath))
                    => Entries(mgr'[i].lockfile) = <<>>
             /\ (ret'[i].ok /\ Exists(cache, LockfilePath) /\ ~Persisted(cache).ok)
                    => Entries(mgr'[i].lockfile) = <<>>]_vars

\* A manager has been constructed over a lockfile that does not deserialize.
C8_Witness ==
    \E i \in Proc :
        /\ pc[i] = "idle"
        /\ ret[i].op = "new"
        /\ ret[i].ok
        /\ Exists(ret[i].before.cache, LockfilePath)
        /\ ~Persisted(ret[i].before.cache).ok
        /\ Entries(mgr[i].lockfile) = <<>>

\* ---------------------------------------------------------------------- C9

C10_KeyIsolation ==
    [][\A i \in Proc :
          (kind = "node" /\ Returns(i) /\ call[i].op \in GetOps)
          => LET c == call[i]
                 k == <<c.version, c.os, c.arch>>
                 own == NodeArchivePath(c.version, c.os, c.arch)
                 after == Entries(mgr'[i].lockfile)
             IN  /\ c.arg # <<>>
                    => /\ KeyOf(c.arg[1]) = k
                       /\ \A n \in DOMAIN after :
                              KeyOf(after[n]) # k => after[n].path # c.arg[1].path
                 /\ (ret'[i].ok /\ Happened(ret'[i].events, "decompress"))
                    => scratch'[i][ret'[i].path].bytes
                           = ZstdDecode(cache'[c.arg[1].path])
                 /\ Others(after, k) = Others(Entries(c.before.lock), k)
                 /\ BlobPaths(cache') \ {own} = BlobPaths(c.before.cache) \ {own}
                 /\ \A p \in BlobPaths(cache') \ {own} :
                        cache'[p] = c.before.cache[p]
                 /\ ret'[i].ok
                    => /\ Len(WithKey(after, k)) = 1
                       /\ WithKey(after, k)[1].path = own
                       /\ \A m, n \in DOMAIN after :
                              m # n => after[m].path # after[n].path]_vars

\* Two successful calls for two keys have left two entries and two blobs.
C10_Witness ==
    \E i \in Proc :
        /\ kind = "node"
        /\ pc[i] = "idle"
        /\ ret[i].op \in GetOps
        /\ ret[i].ok
        /\ Len(Entries(ret[i].before.lock)) = 1
        /\ Len(Entries(mgr[i].lockfile)) = 2
        /\ Cardinality(BlobPaths(cache)) = 2

\* --------------------------------------------------------------------- C11

Times(events, e) == Cardinality({n \in DOMAIN events : events[n] = e})

\* C11: when the manifest has been fetched and parsed and holds no entry
\* whose version, os and arch all equal the requested ones,
\* NodeManager::download fails with NodeBinaryDNE carrying the requested
\* triple; no archive has been fetched, the manifest has been fetched once,
\* and the in-memory lockfile and the cache directory are as they were when
\* the call started.
C11_MissingPlatformFailsEarly ==
    [][\A i \in Proc :
          (/\ kind = "node"
           /\ pc[i] = "download_checksums"
           /\ pc'[i] # pc[i]
           /\ faults' = faults
           /\ \A n \in DOMAIN PublishedChecksums(call[i].version) :
                  PublishedChecksums(call[i].version)[n].meta
                      # [version |-> call[i].version, arch |-> call[i].arch,
                         os |-> call[i].os])
          => /\ Returns(i)
             /\ ~ret'[i].ok
             /\ ret'[i].err = "NodeBinaryDNE"
             /\ ret'[i].version = call[i].version
             /\ ret'[i].os = call[i].os
             /\ ret'[i].arch = call[i].arch
             /\ ~Happened(ret'[i].events, "archive")
             /\ Times(ret'[i].events, "manifest") = 1
             /\ cache' = call[i].before.cache
             /\ mgr'[i].lockfile = call[i].before.lock]_vars

\* A binary has been asked for a platform the manifest does not list.
C11_Witness ==
    \E i \in Proc :
        /\ kind = "node"
        /\ pc[i] = "idle"
        /\ ret[i].op \in GetOps
        /\ ret[i].err = "NodeBinaryDNE"
        /\ Happened(ret[i].events, "manifest")

\* --------------------------------------------------------------------- C12

\* The key a get-binary call asks for.
CallKey(c) ==
    IF kind = "node" THEN <<c.version, c.os, c.arch>> ELSE <<c.version>>

\* The steps of the download, verify, unpack, repack, record sequence.
DownloadSteps ==
    {"download_checksums", "download_node_archive", "calculate_checksum",
     "verify", "unpack_downloaded", "repack_create", "repack_write",
     "checksum", "save",
     "download_esbuild_archive", "es_unpack_downloaded", "es_repack_create",
     "es_repack_write", "es_checksum"}

\* C12: no partial success.  When a get-binary call for key k returns an
\* error raised at a step of the download, verify, unpack, repack, record
\* sequence, the lockfile store holds no entry for k, neither in memory nor
\* in the file on disk, and every entry of another key is still in the
\* store with its blob as it was when the call started.
C12_NoPartialSuccess ==
    [][\A i \in Proc :
          (/\ Returns(i)
           /\ call[i].op \in GetOps
           /\ pc[i] \in DownloadSteps
           /\ ~ret'[i].ok)
          => LET k == CallKey(call[i])
                 before == call[i].before
                 kept == Others(Entries(mgr'[i].lockfile), k)
             IN  /\ WithKey(Entries(mgr'[i].lockfile), k) = <<>>
                 /\ WithKey(PersistedEntries(cache'), k) = <<>>
                 /\ kept = Others(Entries(before.lock), k)
                 /\ \A n \in DOMAIN kept :
                        Exists(before.cache, kept[n].path)
                        => /\ Exists(cache', kept[n].path)
                           /\ cache'[kept[n].path] = before.cache[kept[n].path]]_vars

\* --------------------------------------------------------------------- C13

\* What one get-binary call may have done: at most one manifest fetch and
\* one archive fetch, a fetch after a lookup hit only when the blob's
\* checksum did not match, and nothing after an authenticity mismatch.
OneAttempt(events) ==
    /\ Times(events, "manifest") <= 1
    /\ Times(events, "archive") <= 1
    /\ (Happened(events, "hit")
           /\ (Happened(events, "manifest") \/ Happened(events, "archive")))
       => Happened(events, "invalid")
    /\ Happened(events, "mismatch") => events[Len(events)] = "mismatch"

\* The labels of the steps of a get-binary call, by manager.
GetLabels ==
    IF kind = "node"
    THEN {"unpack_archive", "make_executable", "download_checksums",
          "download_node_archive", "calculate_checksum", "verify",
          "unpack_downloaded", "repack_create", "repack_write", "checksum",
          "save"}
    ELSE {"validate_checksum", "remove_stale", "es_unpack_archive",
          "es_make_executable", "download_esbuild_archive",
          "es_unpack_downloaded", "es_repack_create", "es_repack_write",
          "es_checksum"}

\* How many steps a get-binary call at a label has left at most.
Rank(label) ==
    CASE label \in {"none", "idle"} -> 0
      [] label \in {"make_executable", "es_make_executable"} -> 1
      [] label \in {"unpack_archive", "es_unpack_archive", "save"} -> 2
      [] label \in {"checksum", "es_checksum"} -> 3
      [] label \in {"repack_write", "es_repack_write"} -> 4
      [] label \in {"repack_create", "es_repack_create"} -> 5
      [] label \in {"unpack_downloaded", "es_unpack_downloaded"} -> 6
      [] label = "verify" -> 7
      [] label = "calculate_checksum" -> 8
      [] label \in {"download_node_archive", "download_esbuild_archive"} -> 9
      [] label = "download_checksums" -> 10
      [] label = "remove_stale" -> 11
      [] label = "validate_checksum" -> 12
      [] OTHER -> 13

\* C13: a get-binary call makes at most one download attempt: one manifest
\* fetch and one archive fetch at most, a download after a lookup hit only
\* on a local-integrity mismatch, no retry after a failed download or an
\* authenticity mismatch.  Every get-binary call terminates with a path or
\* an error: a call that has not returned is at a label of its manager's
\* get-binary code, where the step of that label (which has no guard but
\* the label and has a branch for every outcome) can be taken; every step
\* it takes leaves fewer steps to take; and the call that has returned has
\* given a path or an error, and has not ended in a panic.
C13_OneAttemptAndTermination ==
    /\ [](\A i \in Proc :
             /\ OneAttempt(call[i].events)
             /\ OneAttempt(ret[i].events)
             /\ (call[i].op \in GetOps /\ pc[i] # "idle") => pc[i] \in GetLabels
             /\ (pc[i] = "idle" /\ ret[i].op \in GetOps)
                => (ret[i].ok /\ ret[i].path # "") \/ (~ret[i].ok /\ ret[i].err # ""))
    /\ [][\A i \in Proc :
             (call[i].op \in GetOps /\ pc'[i] # pc[i])
             => /\ Rank(pc'[i]) < Rank(pc[i])
                /\ Returns(i)
                   => /\ pc'[i] = "idle"
                      /\ \/ ret'[i].ok /\ ret'[i].path # ""
                         \/ ~ret'[i].ok /\ ret'[i].err \notin {"", "panic"}]_vars

\* A call that found its entry, found the blob altered, and downloaded once.
C13_Witness ==
    \E i \in Proc :
        /\ pc[i] = "idle"
        /\ ret[i].op \in GetOps
        /\ ret[i].ok
        /\ Happened(ret[i].events, "hit")
        /\ Happened(ret[i].events, "invalid")
        /\ Times(ret[i].events, "archive") = 1

\* --------------------------------------------------------------------- C14

\* C14: the two checksum domains are told apart by outcome.  A
\* ChecksumMismatch error that reaches the caller of a get-binary call comes
\* from the comparison made on a freshly downloaded archive; and a get-binary
\* call that finds its entry with a blob whose checksum differs from the
\* recorded one, nothing failing during the call, returns no error: it
\* removes the entry and downloads.
C14_ChecksumDomainsDistinguishable ==
    [][\A i \in Proc :
          (Returns(i) /\ call[i].op \in GetOps)
          => /\ ret'[i].err = "ChecksumMismatch"
                => /\ Happened(ret'[i].events, "archive")
                   /\ ret'[i].events[Len(ret'[i].events)] = "mismatch"
             /\ (/\ call[i].arg # <<>>
                 /\ Exists(call[i].before.cache, call[i].arg[1].path)
                 /\ Sha256(call[i].before.cache[call[i].arg[1].path])
                        # call[i].arg[1].checksum
                 /\ faults' = call[i].before.faults)
                => /\ ret'[i].ok
                   /\ Happened(ret'[i].events, "remove")
                   /\ Happened(ret'[i].events, "archive")]_vars

\* --------------------------------------------------------------------- C15

\* The steps that ask the network for something.
TransferLabels ==
    {"download_checksums", "download_node_archive", "download_esbuild_archive"}

C16_HttpErrorIsDownloadError ==
    [][\A i \in Proc :
          (pc[i] = "download_checksums" /\ pc'[i] # pc[i])
          => LET events == IF Returns(i) THEN ret'[i].events ELSE call'[i].events
             IN  (Happened(events, "http_error") \/ ~Happened(events, "parse"))
                 => /\ Returns(i)
                    /\ ~ret'[i].ok
                    /\ ret'[i].err = "Download"
                    /\ ~Happened(events, "parse")]_vars

\* --------------------------------------------------------------- C17..C19

\* The well-formed lines of the parser's specification are those written to
\* the grammar from their parts: a digest in 64 hexadecimal characters, two
\* spaces, "node-v", three decimal numbers joined by dots, "-", an OS token,
\* "-", an architecture token, ".tar.gz" or ".zip", and nothing more.
GrammarParts ==
    {LinuxX64, WinX86, DarwinArm64, LinuxX64Zip,
     [LinuxX64 EXCEPT !.minor = <<"0", "3">>],
     [LinuxX64 EXCEPT !.major = <<"1", "8", "4", "4", "6", "7", "4", "4", "0", "7", "3", "7", "0", "9", "5", "5", "1", "6", "1", "6">>]}

Matches(line) == \E e \in GrammarParts : EntryLine(e) = line

\* The entry a well-formed line stands for.
EntryOf(line) ==
    LET e == CHOOSE e \in GrammarParts : EntryLine(e) = line
    IN  [checksum |-> Sha256(e.digest),
         meta |-> [version |-> Concat(e.major) \o "." \o Concat(e.minor)
                                   \o "." \o Concat(e.patch),
                   arch |-> CHOOSE arch \in Arch : ArchChars(arch) = e.arch,
                   os |-> CHOOSE os \in Os : OsChars(os) = e.os]]

RECURSIVE EntriesOf(_)
EntriesOf(lines) ==
    IF lines = <<>> THEN <<>>
    ELSE (IF Matches(Head(lines)) THEN <<EntryOf(Head(lines))>> ELSE <<>>)
             \o EntriesOf(Tail(lines))

\* C17: for every manifest text, parse_checksum_file returns exactly one
\* (digest, metadata) entry per line that matches the entry grammar and none
\* for the other lines, in the order of the lines, each with the digest and
\* the version, os and arch written on its line.
C17_ExactlyTheMatchingLines ==
    output # NotParsed => output.entries = EntriesOf(input)

\* C18: no line makes parse_checksum_file panic, and no line makes it return
\* an error while another line of the same manifest matches the grammar:
\* every line is either turned into an entry or skipped.
C18_EveryLineParsedOrSkipped ==
    output # NotParsed
    => /\ output.result # "panic"
       /\ (\E n \in DOMAIN input : Matches(input[n])) => output.result = "Ok"

\* C19: parse_checksum_file returns UnparseableChecksumFile exactly when no
\* line of the input matches the grammar (the empty input included), and Ok
\* with a non-empty list when at least one line matches.
C19_UnparseableIffNoLineMatches ==
    output # NotParsed
    => /\ output.result = "UnparseableChecksumFile"
            <=> (\A n \in DOMAIN input : ~Matches(input[n]))
       /\ (\E n \in DOMAIN input : Matches(input[n]))
            => (output.result = "Ok" /\ output.entries # <<>>)

\* --------------------------------------------------------------------- C20

\* The executables the upstreams publish.
Binaries ==
    {NodeBinary(v, os, arch) : v \in Versions, os \in Os, arch \in Arch}
        \cup {ESBuildBinary(ESBUILD_VERSION)}

C21_LockfileRoundTrip ==
    ret[1].op = "save" /\ ret[1].ok /\ ret[2].op = "load" =>
        /\ ret[2].ok => mgr[2].lockfile = mgr[1].lockfile
        /\ faults = 0 => ret[2].ok

\* A list of three entries, two of them with the same key and not in the
\* order of their keys, at the second path, has been saved and loaded.
C21_Witness ==
    /\ kind = "node"
    /\ ret[2].op = "load" /\ ret[2].ok
    /\ mgr[2].lockfile = mgr[1].lockfile
    /\ mgr[2].lockfile.lockfile_path # LockfilePath
    /\ Len(mgr[2].lockfile.node_executables) = 3
    /\ mgr[2].lockfile.node_executables[1].meta = mgr[2].lockfile.node_executables[3].meta
    /\ mgr[2].lockfile.node_executables[1] # mgr[2].lockfile.node_executables[3]

\* ------------------------------------------------------------------- C22

\* The tokens of upstream's file names.
OsToken(os) ==
    CASE os = "MacOS" -> <<"d", "a", "r", "w", "i", "n">>
      [] os = "Linux" -> <<"l", "i", "n", "u", "x">>
      [] os = "Windows" -> <<"w", "i", "n">>

ArchToken(arch) ==
    CASE arch = "X64" -> <<"x", "6", "4">>
      [] arch = "X86" -> <<"x", "8", "6">>
      [] arch = "Arm64" -> <<"a", "r", "m", "6", "4">>

\* C22: Platform tokens.  Rendering maps MacOS, Linux, Windows to exactly
\* darwin, linux, win and X64, X86, Arm64 to exactly x64, x86, arm64;
\* rendering is injective; and the manifest parser's token parser applied to
\* a rendered token returns the original value and consumes the whole token.
C22_PlatformTokens ==
    /\ output.result \in {"rendered", "parsed"} =>
        /\ output.entries[1] = OsToken(input.os)
        /\ output.entries[2] = ArchToken(input.arch)
    /\ output.result = "parsed" =>
        /\ output.entries[3] = Parsed(input.os, <<>>)
        /\ output.entries[4] = Parsed(input.arch, <<>>)
    /\ \A a, b \in Os : OsDisplay(a) = OsDisplay(b) => a = b
    /\ \A a, b \in Arch : ArchDisplay(a) = ArchDisplay(b) => a = b

\* The tokens of windows on x86, the prefix of another tag each, were
\* rendered and parsed back.
C22_Witness ==
    /\ output.result = "parsed"
    /\ input.os = "Windows" /\ input.arch = "X86"
    /\ output.entries[3].value = "Windows"
    /\ output.entries[4].value = "X86"

\* ------------------------------------------------------------------- C23

HostSupported(OS, ARCH) ==
    OS \in {"macos", "linux", "windows"} /\ ARCH \in {"x86", "x86_64", "aarch64"}

\* C23: Host detection is fallible, not aborting.  On a host whose OS or
\* architecture is not supported, detection yields an error value that
\* reaches the caller: it never ends the process, and it never reports a
\* supported target for an unsupported host.
C23_HostDetectionIsFallible ==
    /\ output.result # "panic"
    /\ output.result = "Ok" => HostSupported(input.OS, input.ARCH)

\* ------------------------------------------------------------------- C24

\* Whether the path names something below the directory.
PathInside(path, dirname) ==
    /\ Len(path) > Len(dirname) + 1
    /\ SubSeq(path, 1, Len(dirname) + 1) = dirname \o "/"

\* C24: Every path returned by a successful get-binary call, on the hit path
\* and on the download path alike, lies inside the instance's scratch
\* directory and is never the path of the compressed blob in the cache
\* directory; on a Unix host the file at that path has mode 0o755 before the
\* call returns.
C24_ReturnedPathIsScratchExecutable ==
    [][\A i \in procs :
        Returns(i) /\ ret'[i].ok /\ ret'[i].op \in GetOps =>
            LET path == ret'[i].path
            IN  /\ PathInside(path, mgr'[i].tmp_dir)
                /\ ~PathInside(path, CacheDir)
                /\ path \notin DOMAIN cache'
                /\ \A n \in DOMAIN Entries(mgr'[i].lockfile) :
                       Entries(mgr'[i].lockfile)[n].path # path
                /\ path \in DOMAIN scratch'[i]
                /\ scratch'[i][path].mode = "0o755"]_vars

\* Both a call served from the cache and a call that downloaded have
\* returned a path in this behaviour: the last one was a hit, and the blob it
\* was unpacked from was written by a download of this manager.
C24_Witness ==
    /\ ret[1].ok /\ ret[1].op \in GetOps
    /\ Happened(ret[1].events, "hit")
    /\ ret[1].path \in DOMAIN scratch[1]
    /\ scratch[1][ret[1].path].mode = "0o755"
    /\ \E p \in DOMAIN scratch[1] : p # ret[1].path /\ scratch[1][p].mode = "0o755"

\* ------------------------------------------------------------------- C25

\* C25: Lost update under concurrent invocations.  The lockfile is loaded
\* once at construction and rewritten whole on save, with no lock between
\* processes: every step that writes the lockfile leaves in it exactly the
\* in-memory list of the process that took the step, whatever another
\* process has saved in the meantime.  So there is an interleaving of two
\* managers on one cache directory, each running get-binary for another
\* key, in which both calls return Ok and the persisted lockfile lacks the
\* entry of one of them while that entry's blob is in the cache directory
\* (the state C25_Witness).
C25_SaveRewritesWholeFromMemory ==
    [][Exists(cache', LockfilePath)
       /\ (Exists(cache, LockfilePath) => cache'[LockfilePath] # cache[LockfilePath])
       => \E i \in procs :
            /\ pc'[i] # pc[i]
            /\ PersistedEntries(cache') = Entries(mgr'[i].lockfile)]_vars

\* Both get-binary calls, for different keys, have returned Ok after a
\* download each; the lockfile on disk has no entry for the key of process
\* 1, whose blob is in the cache directory and whose entry is in the memory
\* of process 1.
C25_Witness ==
    /\ \A i \in procs :
        /\ pc[i] = "idle"
        /\ ret[i].ok /\ ret[i].op \in GetOps
        /\ Happened(ret[i].events, "save")
    /\ CallKey(ret[1]) # CallKey(ret[2])
    /\ WithKey(PersistedEntries(cache), CallKey(ret[1])) = <<>>
    /\ WithKey(PersistedEntries(cache), CallKey(ret[2])) # <<>>
    /\ WithKey(Entries(mgr[1].lockfile), CallKey(ret[1])) # <<>>
    /\ Exists(cache, NodeArchivePath(ret[1].version, ret[1].os, ret[1].arch))

\* ------------------------------------------------------------------- C26

\* The scratch paths a running call reads: the downloaded archive and the
\* unpacked executable.
ScratchReads(i) == {call[i].archive, call[i].executable} \ {""}

\* C26: Scratch isolation between concurrent instances.  Every temporary
\* file an instance writes while downloading, extracting or decompressing,
\* and every scratch path it reads, lies under that instance's own uniquely
\* named scratch directory, so in no interleaving do two running instances
\* read or write the same scratch path; only the cache directory and the
\* lockfile are shared.
C26_ScratchIsolation ==
    \A i \in procs :
        /\ \A p \in DOMAIN scratch[i] \cup ScratchReads(i) :
            /\ PathInside(p, mgr[i].tmp_dir)
            /\ ~PathInside(p, CacheDir)
            /\ \A j \in procs \ {i} :
                /\ ~PathInside(p, mgr[j].tmp_dir)
                /\ p \notin DOMAIN scratch[j] \cup ScratchReads(j)
        /\ \A j \in procs \ {i} : mgr[i].tmp_dir # mgr[j].tmp_dir
        /\ mgr[i].node_cache_dir = CacheDir

\* Both processes are in the middle of a download of the same archive, each
\* with its own copy of the downloaded file and of the extracted tree.
C26_Witness ==
    /\ pc[1] = "repack_write" /\ pc[2] = "repack_write"
    /\ CallKey(call[1]) = CallKey(call[2])
    /\ Cardinality(DOMAIN scratch[1]) >= 2
    /\ Cardinality(DOMAIN scratch[2]) >= 2
    /\ call[1].blob = call[2].blob

\* ------------------------------------------------------------------- C27

\* The steps in which remove, the self-heal removal or clean_cache take an
\* entry out of the store or delete its blob.
RemovalLabels ==
    {"lockfile_remove", "remove_dir_all", "remove_stale", "es_remove",
     "es_remove_dir_all"}

\* The steps that build a new store: the construction of a manager.
ConstructionLabels == {"new", "es_new"}

\* C27: Entries are immutable while stored.  Once an entry is in a
\* manager's lockfile store, its metadata, checksum and blob path never
\* change; no operation of the manager other than remove, the self-heal
\* re-download and clean_cache modifies or deletes its blob file; and it
\* leaves the store only through remove, the self-heal removal or
\* clean_cache.
C27_EntriesImmutableWhileStored ==
    [][\A i \in procs :
        pc[i] \notin ConstructionLabels \cup {"none"} =>
            \A n \in DOMAIN Entries(mgr[i].lockfile) :
                LET e == Entries(mgr[i].lockfile)[n]
                    after == WithKey(Entries(mgr'[i].lockfile), KeyOf(e))
                IN  /\ pc[i] \notin RemovalLabels => after # <<>>
                    /\ \A m \in DOMAIN after : after[m] = e
                    /\ pc[i] \notin RemovalLabels /\ tampers' = tampers =>
                        /\ Exists(cache, e.path) = Exists(cache', e.path)
                        /\ Exists(cache, e.path) => cache'[e.path] = cache[e.path]]_vars

\* An entry stayed as it was while the manager downloaded for another key
\* and then served the entry's key from the cache.
C27_Witness ==
    /\ kind = "node"
    /\ pc[1] = "idle"
    /\ Len(mgr[1].lockfile.node_executables) = 2
    /\ ret[1].ok /\ ret[1].op \in GetOps
    /\ Happened(ret[1].events, "hit")
    /\ KeyOf(mgr[1].lockfile.node_executables[1]) = CallKey(ret[1])
    /\ Exists(cache, mgr[1].lockfile.node_executables[1].path)

\* --------------------------------------------------------------------- C28

\* The call that returned last on instance i was a successful get for the
\* key of the call in progress, and nothing outside the program touched the
\* cache directory between the two.
RepeatedGet(i) ==
    /\ call[i].op \in GetOps
    /\ ret[i].op \in GetOps
    /\ ret[i].ok
    /\ CallKey(ret[i]) = CallKey(call[i])
    /\ call[i].before.tampers = ret[i].before.tampers

\* C28: once a get call for a key has returned Ok, the next get call for
\* that key on the same instance, with the blob untouched and no remove or
\* clean between the two, fetches neither manifest nor archive, leaves the
\* store and the cache directory as they were, succeeds whenever no I/O
\* step fails during it, and then returns the bytes the first call returned.
C28_CacheHitIdempotent ==
    [][\A i \in procs :
          (Returns(i) /\ RepeatedGet(i)) =>
             /\ ~Happened(ret'[i].events, "manifest")
             /\ ~Happened(ret'[i].events, "archive")
             /\ Happened(ret'[i].events, "hit")
             /\ mgr'[i].lockfile = call[i].before.lock
             /\ cache' = call[i].before.cache
             /\ faults' = call[i].before.faults => ret'[i].ok
             /\ ret'[i].ok => ret'[i].bytes = ret[i].bytes]_vars

\* A second get for a key is about to return after the first one downloaded
\* and returned Ok.
C28_Witness ==
    \E i \in procs :
        /\ pc[i] \in {"make_executable", "es_make_executable"}
        /\ RepeatedGet(i)
        /\ Happened(ret[i].events, "save")
        /\ ret[i].bytes # <<>>

\* --------------------------------------------------------------------- C29

\* The blob an entry of the persisted lockfile refers to is on disk.
BlobExists(e) == Exists(cache, e.path)

\* The blob is on disk and its SHA-256 is the checksum the entry records.
BlobValid(e) == BlobExists(e) /\ Sha256(cache[e.path]) = e.checksum

\* C29: with a single instance and nothing outside the program touching the
\* cache directory, at every step of every operation each entry of the
\* persisted lockfile refers to a blob that exists, is completely written
\* and has the recorded checksum.
C29_PersistedEntriesHaveValidBlobs ==
    (procs = {1} /\ tampers = 0) =>
        \A n \in DOMAIN PersistedEntries(cache) :
            BlobValid(PersistedEntries(cache)[n])

\* The same while no step of any call has failed: the order of the writes
\* (blob before entry in download, entry before blob in remove) keeps every
\* persisted entry valid as long as every save succeeds.
ValidBlobsWhileNoStepFails ==
    (procs = {1} /\ tampers = 0 /\ faults = 0) =>
        \A n \in DOMAIN PersistedEntries(cache) :
            BlobValid(PersistedEntries(cache)[n])

\* --------------------------------------------------------------------- C30

\* The record c of a get call found an entry whose blob was not on disk
\* when the call began.
FoundEntryWithoutBlob(c) ==
    /\ c.op \in GetOps
    /\ Happened(c.events, "hit")
    /\ ~Exists(c.before.cache, c.arg[1].path)

\* C30: a get-binary call that finds an entry whose blob file is missing
\* returns an Io error, fetches neither manifest nor archive, and leaves the
\* store, the lockfile and the (still missing) blob as they were, so the
\* next get-binary call for the key starts from the same state.
C30_MissingBlobIsNotHealed ==
    [][\A i \in procs :
          (Returns(i) /\ FoundEntryWithoutBlob(call[i])) =>
             /\ ~ret'[i].ok
             /\ ret'[i].err = "Io"
             /\ ~Happened(ret'[i].events, "manifest")
             /\ ~Happened(ret'[i].events, "archive")
             /\ mgr'[i].lockfile = call[i].before.lock
             /\ cache' = call[i].before.cache]_vars

\* A get has failed on the missing blob and the next get for the same key
\* has found the same entry, its blob still missing.
C30_Witness ==
    \E i \in procs :
        /\ pc[i] \in {"unpack_archive", "validate_checksum"}
        /\ FoundEntryWithoutBlob(call[i])
        /\ FoundEntryWithoutBlob(ret[i])
        /\ ret[i].err = "Io"
        /\ CallKey(ret[i]) = CallKey(call[i])
        /\ call[i].arg = ret[i].arg

\* --------------------------------------------------------------------- C36

\* The architecture each token of a manifest line stands for.
AliasArch(token) ==
    IF Concat(token) \in {"arm64", "aarch64"} THEN "Arm64"
    ELSE IF Concat(token) \in {"x64", "x86_64"} THEN "X64"
    ELSE "X86"

\* C36: a manifest entry line whose architecture token is arm64 or aarch64
\* parses to an entry with architecture Arm64, one with x64 or x86_64 to an
\* entry with X64, one with x86 to an entry with X86, with either extension.
C36_ArchAliases ==
    output.result = "entry" =>
        /\ output.entries[2].ok
        /\ output.entries[2].value.meta.arch = AliasArch(output.entries[1])

\* The same for every token but x86_64.
ArchAliasesButTheLast ==
    (output.result = "entry" /\ Concat(output.entries[1]) # "x86_64") =>
        /\ output.entries[2].ok
        /\ output.entries[2].value.meta.arch = AliasArch(output.entries[1])

\* --------------------------------------------------------------------- C34

\* C34: when remove(artifact) returns an error, the store is as it was when
\* the call began: the in-memory list and the list of the persisted lockfile
\* are unchanged, so the artifact's entry is still in both.
C34_RemoveIsAtomicOnError ==
    [][\A i \in procs :
          (Returns(i) /\ call[i].op = "remove" /\ ~ret'[i].ok) =>
             /\ mgr'[i].lockfile = call[i].before.lock
             /\ PersistedEntries(cache') = PersistedEntries(call[i].before.cache)]_vars

\* The same for ESBuild::remove alone, which deletes the blob before it
\* touches the store.
ESBuildRemoveIsAtomicOnError ==
    [][\A i \in procs :
          (Returns(i) /\ kind = "esbuild" /\ call[i].op = "remove" /\ ~ret'[i].ok) =>
             /\ mgr'[i].lockfile = call[i].before.lock
             /\ PersistedEntries(cache') = PersistedEntries(call[i].before.cache)]_vars

\* --------------------------------------------------------------------- C35

\* The operations the claim names.
StoreOps == GetOps \cup {"remove", "clean_cache"}

\* C35: when a get-binary, remove or clean_cache call returns an error, the
\* in-memory list of entries equals the list of the persisted lockfile (no
\* file, or a file that does not deserialize, counting as the empty list).
C35_MemoryEqualsDiskAfterError ==
    [][\A i \in procs :
          (/\ Returns(i)
           /\ call[i].op \in StoreOps
           /\ ~ret'[i].ok
           /\ ret'[i].err # "panic"
           /\ tampers = 0) =>
             Entries(mgr'[i].lockfile) = PersistedEntries(cache')]_vars

\* --------------------------------------------------------------------- C33

\* Both instances have returned Ok from a get-binary call for one key, each
\* after downloading it.
BothDownloaded ==
    /\ procs = {1, 2}
    /\ AllIdle
    /\ \A i \in procs :
        /\ ret[i].op \in GetOps
        /\ ret[i].ok
        /\ Happened(ret[i].events, "add")
    /\ CallKey(ret[1]) = CallKey(ret[2])

\* C33: once two instances sharing the cache directory have both returned
\* Ok from get-binary calls for the same key, the persisted lockfile holds
\* exactly one entry for the key, and the checksum it records is the
\* checksum of the blob file on disk.
C33_ConcurrentGetsLeaveOneValidEntry ==
    BothDownloaded =>
        LET es == WithKey(PersistedEntries(cache), CallKey(ret[1]))
        IN  /\ Len(es) = 1
            /\ Exists(cache, es[1].path)
            /\ Sha256(cache[es[1].path]) = es[1].checksum

\* The part about the number of entries and the blob being there.
ConcurrentGetsLeaveOneEntry ==
    BothDownloaded =>
        LET es == WithKey(PersistedEntries(cache), CallKey(ret[1]))
        IN  Len(es) = 1 /\ Exists(cache, es[1].path)

\* --------------------------------------------------------------------- C32

\* The manifest lines of a platform that end in an extension, with the
\* digest each gives.
LinesOf(meta, ext) ==
    {n \in DOMAIN input :
        /\ Matches(input[n])
        /\ EntryOf(input[n]).meta = meta
        /\ \E e \in GrammarParts : EntryLine(e) = input[n] /\ e.ext = ext}

\* C32: the digest the download compares the archive with is the digest of
\* a manifest line of the requested version, os and arch whose extension is
\* the extension of the archive's URL, also when the manifest lists the
\* platform under both extensions.
C32_DigestOfTheFetchedFile ==
    ("found" \in DOMAIN output /\ output.found # <<>>) =>
        \E n \in LinesOf(output.meta, output.ext) :
            EntryOf(input[n]).checksum = output.found[1].checksum

\* The same for manifests as upstream publishes them: every line matches
\* the grammar and carries the extension of its platform's archive.
DigestOfTheFetchedFileUpstream ==
    (/\ "found" \in DOMAIN output
     /\ output.found # <<>>
     /\ \A n \in DOMAIN input :
            /\ Matches(input[n])
            /\ n \in LinesOf(EntryOf(input[n]).meta,
                             ArchiveExt(EntryOf(input[n]).meta.os))) =>
        \E n \in LinesOf(output.meta, output.ext) :
            EntryOf(input[n]).checksum = output.found[1].checksum

\* --------------------------------------------------------------------- C31

\* C31: ESBuild::get_binary returns a binary from the cached blob (without
\* a download) only when the entry the store holds was recorded under
\* ESBUILD_VERSION; an entry of another version is treated as a miss.
C31_CacheKeyedOnPinnedVersion ==
    [][\A i \in procs :
          (/\ Returns(i)
           /\ call[i].op = "get_binary"
           /\ ret'[i].ok
           /\ ~Happened(ret'[i].events, "archive")) =>
             /\ call[i].arg # <<>>
             /\ call[i].arg[1].version = ESBUILD_VERSION
             /\ ret'[i].bytes = ESBuildBinary(ESBUILD_VERSION)]_vars

====
